---- MODULE Spec2Model ----
(***************************************************************************)
(* Job orchestration of the whisper-server: the request handlers of        *)
(* api/routes.py (one event-loop thread), the TaskManager of               *)
(* core/task_manager.py with its single worker thread, the two local       *)
(* cache tiers and the PostgreSQL store of db/postgres_db.py.              *)
(*                                                                         *)
(* Threads interleave at the granularity of the steps below: every step    *)
(* is one block of code between two points where the other thread can be   *)
(* observed to run (a dict write, a file operation, an external call).     *)
(***************************************************************************)
EXTENDS Integers, Sequences, FiniteSets, TLC

\* ------------------------------------------------------------------ bounds
MaxQueue == 2
MaxSubmits == 2
MaxDeletes == 1
MaxPlaylist == 2

\* ------------------------------------------------------- program constants
max_retries == 3
BaseDelay == 2

\* --------------------------------------------------------------- value sets
Urls == {"watch?v=v1", "watch?v=v2"}
Services == {"local", "groq"}
TargetLangs == {"NONE", "en"}

\* A key that a dict does not hold; dict.get(key, default) then yields default.
ABSENT == "ABSENT"
InFlight == {"pending", "downloading", "transcribing"}

get_video_id(url) ==
    CASE url = "watch?v=v1" -> "v1"
      [] url = "watch?v=v2" -> "v2"
      [] OTHER -> "md5"

Videos == {get_video_id(u) : u \in Urls}

Get(d, default) == IF d = ABSENT THEN default ELSE d

\* request.dict() of a PlaylistRequest / TranscribeRequest plus video_url and
\* task_id: the request models declare neither domain, engine nor llm_correction.
TaskData(url, service, target_lang) ==
    [task_id |-> get_video_id(url), video_url |-> url, service |-> service,
     target_lang |-> target_lang, domain |-> ABSENT, engine |-> ABSENT,
     llm_correction |-> ABSENT]

NoTaskData ==
    [task_id |-> ABSENT, video_url |-> ABSENT, service |-> ABSENT,
     target_lang |-> ABSENT, domain |-> ABSENT, engine |-> ABSENT,
     llm_correction |-> ABSENT]

\* Playlists: the url sequences without repetition that start with the first
\* source, up to MaxPlaylist.
RECURSIVE SeqsUpTo(_)
SeqsUpTo(n) ==
    IF n = 0 THEN {<<>>}
    ELSE LET shorter == SeqsUpTo(n - 1) IN
         shorter \cup {Append(s, u) : s \in {t \in shorter : Len(t) = n - 1}, u \in Urls}

Playlists == {s \in SeqsUpTo(MaxPlaylist) :
                 Len(s) > 0 /\ s[1] = "watch?v=v1" /\ \A i, j \in 1..Len(s) : i # j => s[i] # s[j]}

\* The requests the clients send: every configuration for the first source,
\* the default one for the second.
SubmitInputs ==
    {<<u, s, t>> \in Urls \X Services \X TargetLangs :
        /\ ~(s = "groq" /\ t = "en")
        /\ u = "watch?v=v2" => (s = "local" /\ t = "NONE")}

PlaylistInputs ==
    {<<pl, s, t>> \in Playlists \X Services \X TargetLangs :
        \A i \in 1..Len(pl) : <<pl[i], s, t>> \in SubmitInputs}

QueryIds == {"v1"}
DeleteIds == {"v1"}

VARIABLES
    tasks,        \* TaskManager.tasks: task_id -> record
    task_queue,   \* TaskManager.task_queue: FIFO of task_data
    cache_files,  \* CACHE_DIR/<video_id>.json: final tier, local
    raw_files,    \* RAW_CACHE_DIR/<video_id>.json: raw tier, local
    pg_rows,      \* table subtitles of PostgreSQL: final tier, remote
    audio_files,  \* TEMP_DIR/<video_id>.mp3 present and non-empty
    worker,       \* the worker thread: position and locals
    handler,      \* the request being served on the event loop
    ranCfg,       \* history: configuration of the pass last dequeued per source id
    requests,     \* submissions and deletions accepted so far
    translation,  \* one call of _translate_subtitles: position, locals, outcome
    recognition,  \* one recognition building the subtitle sequence from segments
    splitting,    \* one call of split_text: the text, the lines
    correction,   \* one call of _correct_transcription: position, locals, answers
    model_loading \* WhisperEngine: the model, the lock, the threads in get_model

vars == <<tasks, task_queue, cache_files, raw_files, pg_rows,
          audio_files, worker, handler, ranCfg, requests, translation,
          recognition, splitting, correction, model_loading>>

\* ----------------------------------------------------------- dict helpers
Put(f, k, val) == [x \in DOMAIN f \cup {k} |-> IF x = k THEN val ELSE f[x]]
Del(f, k) == [x \in DOMAIN f \ {k} |-> f[x]]
Lookup(f, k) == IF k \in DOMAIN f THEN {f[k]} ELSE {}

\* TaskManager.update_task: the whole record is replaced
update_task(T, task_id, status, progress, message, subtitles, language) ==
    Put(T, task_id,
        [task_id |-> task_id, status |-> status, progress |-> progress,
         message |-> message, subtitles |-> subtitles,
         detected_language |-> language,
         video_url |-> ABSENT, video_id |-> ABSENT, service |-> ABSENT,
         domain |-> ABSENT, engine |-> ABSENT, target_lang |-> ABSENT,
         llm_correction |-> ABSENT])

\* TaskManager.get_task
get_task(task_id) == Lookup(tasks, task_id)

\* add_task after its queue.put: the pending write and the metadata update
add_task_write(T, td) ==
    LET T1 == update_task(T, td.task_id, "pending", 0, <<"queued">>, "NONE", "NONE") IN
    Put(T1, td.task_id,
        [T1[td.task_id] EXCEPT
            !.video_url = td.video_url,
            !.service = Get(td.service, "local"),
            !.domain = Get(td.domain, "general"),
            !.engine = Get(td.engine, "whisper"),
            !.target_lang = td.target_lang,
            !.llm_correction = Get(td.llm_correction, "False"),
            !.status = "pending", !.progress = 0, !.message = <<"queued">>,
            !.subtitles = "EMPTY",
            !.video_id = get_video_id(td.video_url)])

\* ------------------------------------------------------------ cache tiers
\* Every PostgresDB method returns its failure value (None, False) when
\* connection_pool is None and when the statement raises; `ok` is the other case.
\* PostgresDB.get_by_video_id: a row has no service, domain or engine column
pg_get(video_id, ok) ==
    IF ok /\ video_id \in DOMAIN pg_rows
    THEN {[service |-> ABSENT, domain |-> ABSENT, engine |-> ABSENT,
           target_lang |-> pg_rows[video_id].target_lang,
           language |-> pg_rows[video_id].language,
           subtitles |-> pg_rows[video_id].subtitles]}
    ELSE {}

\* PostgresDB.upsert_subtitles
pg_upsert(rows, data, ok) ==
    IF ~ok \/ data.subtitles \in {"NONE", "EMPTY"}
    THEN rows
    ELSE Put(rows, data.video_id,
             [language |-> data.language, target_lang |-> data.target_lang,
              subtitles |-> data.subtitles,
              \* history: the keys of data that the INSERT statement leaves out
              not_stored |-> [service |-> data.service, domain |-> data.domain,
                              engine |-> data.engine]])

\* TaskManager._get_cached_subtitles: local file first, then PostgreSQL
get_cached_subtitles(video_id, ok) ==
    IF video_id \in DOMAIN cache_files
    THEN {[k \in {"service", "domain", "engine", "target_lang", "language", "subtitles"}
             |-> cache_files[video_id][k]]}
    ELSE pg_get(video_id, ok)

\* a comparison that leaves the target language out
final_match_without_target(td, cached) ==
    /\ Get(td.service, "local") = Get(cached.service, "local")
    /\ Get(td.domain, "general") = Get(cached.domain, "general")
    /\ Get(td.engine, "whisper") = Get(cached.engine, "whisper")

\* the test of _process_task on a final-tier record
final_match(td, cached) ==
    /\ Get(td.service, "local") = Get(cached.service, "local")
    /\ Get(td.domain, "general") = Get(cached.domain, "general")
    /\ Get(td.engine, "whisper") = Get(cached.engine, "whisper")
    /\ td.target_lang = cached.target_lang

\* the raw-tier test without its emptiness condition
raw_match_accepts_empty(td, raw) ==
    /\ raw.engine = Get(td.engine, "whisper")
    /\ raw.domain = Get(td.domain, "general")

\* the test of _process_task on a raw-tier record
raw_match(td, raw) ==
    /\ raw.engine = Get(td.engine, "whisper")
    /\ raw.domain = Get(td.domain, "general")
    /\ raw.subtitles \notin {"NONE", "EMPTY"}

FinalData(td, subtitles, language) ==
    [video_id |-> td.task_id, language |-> language,
     service |-> Get(td.service, "local"), domain |-> Get(td.domain, "general"),
     engine |-> Get(td.engine, "whisper"), target_lang |-> td.target_lang,
     subtitles |-> subtitles]

RawData(td, subtitles, language) ==
    [video_id |-> td.task_id, language |-> language,
     domain |-> Get(td.domain, "general"), engine |-> Get(td.engine, "whisper"),
     subtitles |-> subtitles]

\* ------------------------------------------------------------------ worker
IdleWorker ==
    [pc |-> "idle", task |-> NoTaskData, subtitles |-> "NONE", language |-> "NONE",
     attempt |-> 0, calls |-> 0, waits |-> <<>>, nfail |-> 0, lastFail |-> "NONE",
     lastKind |-> "NONE", exc |-> <<>>, snapLocal |-> {}, snapRemote |-> {}]

HandlerIdle ==
    [pc |-> "idle", td |-> NoTaskData, rest |-> <<>>, video_id |-> ABSENT,
     deleted |-> {}, failed |-> {}, quiet |-> FALSE, resp |-> <<>>]

\* ------------------------------------- _translate_subtitles: its values
\* Lines of one call, and the batch sizes: 30 lines a batch, 15 with LM Studio,
\* scaled so that a call of MaxLines lines runs more than one batch.
MaxLines == 3
BatchRemote == 2
BatchLocal == 1
\* for attempt in range(2), in both passes
pass_attempts == 2

TrTargets == {"NONE", "zh-CN"}
SrcLangs == {"auto", "zh"}
\* What the environment and the request give for the LLM: no usable key,
\* a remote service, or LM_STUDIO_API_URL.
LlmConfigs == {"no_key", "remote", "lm_studio"}
\* "nihao" stands for a text with a character in U+4E00..U+9FFF
Texts == {"hello", "nihao"}

has_chinese(text) == text = "nihao"

Line(k, text) ==
    [start |-> k - 1, end |-> k, text |-> text, translation |-> ABSENT]

LineSeqs ==
    UNION {{[k \in 1..n |-> Line(k, f[k])] : f \in [1..n -> Texts]} : n \in 0..MaxLines}

\* str(j) of the map-back loop
str(j) == ToString(j)

\* A value of the answered JSON object: an object with 'free' and 'direct',
\* one with 'direct' only, or a plain string.
Values ==
    {[isdict |-> TRUE, free |-> "F", direct |-> "D", text |-> ""],
     [isdict |-> TRUE, free |-> "", direct |-> "D", text |-> ""],
     [isdict |-> FALSE, free |-> "", direct |-> "", text |-> "S"]}

StrayValue == [isdict |-> FALSE, free |-> "", direct |-> "", text |-> "S"]

\* keys "0".."n-1" of a batch and one key that is no index
Keys == {str(j) : j \in 0..(BatchRemote - 1)} \cup {"x"}

Dicts ==
    UNION {{d \in [S -> Values] : "x" \in S => d["x"] = StrayValue} : S \in SUBSET Keys}

\* What _ask_llm returns: None (request failed, empty content, JSON not
\* repairable), a JSON value that is no object, or a JSON object.
NoRes == [kind |-> "unset", dict |-> <<>>]

Responses ==
    {[kind |-> "none", dict |-> <<>>], [kind |-> "list", dict |-> <<>>]}
        \cup {[kind |-> "dict", dict |-> d] : d \in Dicts}

\* The answer to the summary prompt: as above, an object being told by its
\* 'terms': missing, a list of objects, or a list of strings.
SummaryResponses ==
    {[kind |-> "none", terms |-> ABSENT], [kind |-> "list", terms |-> ABSENT],
     [kind |-> "dict", terms |-> ABSENT], [kind |-> "dict", terms |-> "objects"],
     [kind |-> "dict", terms |-> "strings"]}

NotTranslating ==
    [pc |-> "idle", given |-> <<>>, subtitles |-> <<>>, target_lang |-> "NONE",
     src_lang |-> "auto", llm |-> "no_key", i |-> 0, attempt |-> 0, res |-> NoRes,
     faith_result |-> NoRes, use_result |-> NoRes, translated_subtitles |-> <<>>,
     asked |-> [faith |-> 0, express |-> 0], outcome |-> "NONE", result |-> <<>>]

\* ------------------------------- recognition: texts, times, the judgment
\* Times are counted in thirds of a hundredth of a second, so that
\* round(t, 2) has something to round.
Second == 300
\* e_time = s_time + 0.1
Epsilon == 30

\* round(t, 2)
round2(t) == 3 * ((t + 1) \div 3)

Max(a, b) == IF a > b THEN a ELSE b

\* A text is a sequence of symbols: "dianzan" and "mingjing" stand for the
\* blacklisted phrases of two and four characters (the second is also one of
\* the specific_hallucinations), "dianzan_trad" for the first in traditional
\* characters, "x31" for thirty-one ordinary characters.
CharLen(sym) ==
    CASE sym \in {"dianzan", "dianzan_trad"} -> 2
      [] sym = "mingjing" -> 4
      [] sym = "x31" -> 31
      [] OTHER -> 1

RECURSIVE len(_)
len(text) == IF text = <<>> THEN 0 ELSE CharLen(Head(text)) + len(Tail(text))

\* str.lower()
lower(text) == [k \in 1..Len(text) |-> IF text[k] = "X" THEN "x" ELSE text[k]]

RECURSIVE remove(_, _)
remove(text, syms) ==
    IF text = <<>> THEN <<>>
    ELSE IF Head(text) \in syms THEN remove(Tail(text), syms)
    ELSE <<Head(text)>> \o remove(Tail(text), syms)

\* str.strip()
RECURSIVE strip(_)
strip(text) ==
    IF text = <<>> THEN <<>>
    ELSE IF Head(text) = " " THEN strip(Tail(text))
    ELSE IF text[Len(text)] = " " THEN strip(SubSeq(text, 1, Len(text) - 1))
    ELSE text

\* converter.convert of OpenCC('t2s')
convert(text) ==
    [k \in 1..Len(text) |-> IF text[k] = "dianzan_trad" THEN "dianzan" ELSE text[k]]

\* part.replace(" ", "").lower()
part_cleaned(part) == lower(remove(part, {" "}))

\* the text the judgment looks at: spaces and , . ! ? removed, lower case
text_clean(part) == lower(remove(part, {" ", ",", ".", "!", "?"}))

\* LLM_HALLUCINATION_BLACKLIST, each term with its spaces removed and in lower case
Blacklist == {<<"dianzan">>, <<"mingjing">>}

is_exact_match(t) == t \in Blacklist

is_specific_pattern(t) == \E k \in 1..Len(t) : t[k] = "mingjing"

filtered_from_five_seconds(t, duration) ==
    \/ is_exact_match(t) /\ duration >= 5 * Second
    \/ is_specific_pattern(t) /\ duration > 10 * Second /\ len(t) < 35

\* the judgment of both recognition paths on a cleaned text and a duration
filtered(t, duration) ==
    \/ is_exact_match(t) /\ duration > 5 * Second
    \/ is_specific_pattern(t) /\ duration > 10 * Second /\ len(t) < 35

NotRecognizing == [pc |-> "idle"]

NotSplitting == [pc |-> "idle"]
NotCorrecting == [pc |-> "idle"]
NotLoading == [pc |-> "idle"]

Init ==
    /\ translation = NotTranslating
    /\ recognition = NotRecognizing
    /\ splitting = NotSplitting
    /\ correction = NotCorrecting
    /\ model_loading = NotLoading
    /\ tasks = <<>>
    /\ task_queue = <<>>
    /\ cache_files = <<>>
    /\ raw_files = <<>>
    /\ pg_rows = <<>>
    /\ audio_files = {}
    /\ worker = IdleWorker
    /\ handler = HandlerIdle
    /\ ranCfg = [v \in Videos |-> <<>>]
    /\ requests = [submits |-> 0, deletes |-> 0]

Cfg(td) ==
    <<Get(td.service, "local"), Get(td.domain, "general"), Get(td.engine, "whisper"),
      td.target_lang, Get(td.llm_correction, "False")>>

\* _worker: task = self.task_queue.get(); _process_task up to the raw-tier
\* decision: final tier, then raw tier
worker_get ==
    /\ worker.pc = "idle"
    /\ task_queue # <<>>
    /\ task_queue' = Tail(task_queue)
    /\ \E ok \in BOOLEAN :
        LET td == Head(task_queue)
            vid == get_video_id(td.video_url)
            cached == get_cached_subtitles(vid, ok)
            raw == Lookup(raw_files, vid)
            w == [IdleWorker EXCEPT !.task = td,
                     !.snapLocal = Lookup(cache_files, vid),
                     !.snapRemote = Lookup(pg_rows, vid)]
        IN  /\ ranCfg' = [ranCfg EXCEPT ![td.task_id] = Cfg(td)]
            /\ IF cached # {} /\ \A c \in cached : final_match(td, c)
               THEN /\ tasks' = LET c == CHOOSE c \in cached : TRUE IN
                                update_task(tasks, td.task_id, "completed", 100,
                                            <<"from_cache">>, c.subtitles, c.language)
                    /\ worker' = IdleWorker
               ELSE /\ tasks' = tasks
                    /\ IF raw # {} /\ \A r \in raw : raw_match(td, r)
                       THEN LET r == CHOOSE r \in raw : TRUE IN
                            worker' = [w EXCEPT !.pc = "post",
                                          !.subtitles = r.subtitles,
                                          !.language = r.language]
                       ELSE worker' = [w EXCEPT !.pc = "download"]
    /\ UNCHANGED <<cache_files, raw_files, pg_rows, audio_files,
                   handler, requests>>
    /\ UNCHANGED <<translation, recognition, splitting, correction, model_loading>>

\* a download step without the existing-file shortcut
download_audio_begin_always_downloads ==
    /\ worker.pc = "download"
    /\ tasks' = update_task(tasks, worker.task.task_id, "downloading", 10,
                            <<"downloading">>, "NONE", "NONE")
    /\ worker' = [worker EXCEPT !.pc = "download_try", !.attempt = 0]
    /\ UNCHANGED <<task_queue, cache_files, raw_files, pg_rows,
                   audio_files, handler, ranCfg, requests>>
    /\ UNCHANGED <<translation, recognition, splitting, correction, model_loading>>

\* _download_audio before its retry loop
download_audio_begin ==
    /\ worker.pc = "download"
    /\ LET td == worker.task
           vid == get_video_id(td.video_url)
       IN  IF vid \in audio_files
           THEN /\ tasks' = update_task(tasks, td.task_id, "downloading", 100,
                                        <<"audio_exists">>, "NONE", "NONE")
                /\ worker' = [worker EXCEPT !.pc = "recognize"]
           ELSE /\ tasks' = update_task(tasks, td.task_id, "downloading", 10,
                                        <<"downloading">>, "NONE", "NONE")
                /\ worker' = [worker EXCEPT !.pc = "download_try", !.attempt = 0]
    /\ UNCHANGED <<task_queue, cache_files, raw_files, pg_rows,
                   audio_files, handler, ranCfg, requests>>
    /\ UNCHANGED <<translation, recognition, splitting, correction, model_loading>>

\* the delay slept after failed attempt number `attempt` (0-based)
\* a loop that sleeps the same time after every failure
retry_delay_constant(attempt) == BaseDelay

retry_delay(attempt) == BaseDelay * (attempt + 1)

\* a loop whose last-attempt test is off by one
retry_again_inclusive(attempt) == attempt <= max_retries - 1

\* whether failed attempt number `attempt` (0-based) is followed by another one
retry_again(attempt) == attempt < max_retries - 1

\* why a call fails: for a while (network, overloaded service) or for good (video
\* unavailable, request or key rejected); a loop sees neither, only the exception
FailureKinds == {"transient", "permanent"}

\* what the k-th failing call reports (stderr of yt-dlp, body of the response)
Detail(k) == "e" \o ToString(k)

\* the locals of a retry loop, gone when the function returns
NoRetryLocals(w) ==
    [w EXCEPT !.attempt = 0, !.calls = 0, !.waits = <<>>, !.nfail = 0,
              !.lastFail = "NONE", !.lastKind = "NONE"]

\* one transient failure inside a retry loop: sleep and go on, or give up
retry_failed(w, detail, fatal) ==
    IF retry_again(w.attempt)
    THEN [w EXCEPT !.calls = @ + 1, !.nfail = @ + 1, !.lastFail = detail,
                   !.waits = Append(@, retry_delay(w.attempt)),
                   !.attempt = @ + 1]
    ELSE [w EXCEPT !.calls = @ + 1, !.nfail = @ + 1, !.lastFail = detail,
                   !.pc = "except", !.exc = <<fatal, detail>>]

\* one pass of the loop of _download_audio: subprocess.run(cmd, check=True)
download_audio_try ==
    /\ worker.pc = "download_try"
    /\ LET vid == get_video_id(worker.task.video_url) IN
       \/ /\ audio_files' = audio_files \cup {vid}
          /\ worker' = [NoRetryLocals(worker) EXCEPT !.pc = "recognize"]
       \/ /\ \E kind \in FailureKinds :
                worker' = [retry_failed(worker, Detail(worker.calls + 1),
                                        "download_failed") EXCEPT !.lastKind = kind]
          /\ audio_files' = audio_files
       \/ /\ worker' = [worker EXCEPT !.calls = @ + 1, !.pc = "except",
                                      !.exc = <<"OSError">>]
          /\ audio_files' = audio_files
    /\ UNCHANGED <<tasks, task_queue, cache_files, raw_files, pg_rows,
                   handler, ranCfg, requests>>
    /\ UNCHANGED <<translation, recognition, splitting, correction, model_loading>>

\* _save_raw_cache
save_raw_cache(files, td, subtitles, language) ==
    Put(files, get_video_id(td.video_url),
        [k \in {"language", "domain", "engine", "subtitles"}
           |-> RawData(td, subtitles, language)[k]])

\* _process_task: the dispatch on service, up to the first recognition call
recognize_begin ==
    /\ worker.pc = "recognize"
    /\ LET td == worker.task IN
       IF Get(td.service, "local") = "local"
       THEN /\ tasks' = update_task(tasks, td.task_id, "transcribing", 50,
                                    <<"local_recognition">>, "NONE", "NONE")
            /\ worker' = [worker EXCEPT !.pc = "whisper"]
       ELSE \E has_key \in BOOLEAN :
              IF ~has_key
              THEN /\ tasks' = tasks
                   /\ worker' = [worker EXCEPT !.pc = "except",
                                               !.exc = <<"no_api_key">>]
              ELSE /\ tasks' = update_task(tasks, td.task_id, "transcribing", 48,
                                           <<"uploading">>, "NONE", "NONE")
                   /\ worker' = [worker EXCEPT !.pc = "api_try"]
    /\ UNCHANGED <<task_queue, cache_files, raw_files, pg_rows,
                   audio_files, handler, ranCfg, requests>>
    /\ UNCHANGED <<translation, recognition, splitting, correction, model_loading>>

\* _transcribe_locally: whisper_engine.transcribe and the raw-tier save
transcribe_locally ==
    /\ worker.pc = "whisper"
    /\ \/ /\ worker' = [worker EXCEPT !.pc = "except",
                                      !.exc = <<"recognizer_error">>]
          /\ raw_files' = raw_files
       \/ \E subs \in {"EMPTY", "RAW"} :
            /\ raw_files' = save_raw_cache(raw_files, worker.task, subs, "zh")
            /\ worker' = [NoRetryLocals(worker) EXCEPT !.pc = "post",
                                        !.subtitles = subs, !.language = "zh"]
    /\ UNCHANGED <<tasks, task_queue, cache_files, pg_rows, audio_files,
                   handler, ranCfg, requests>>
    /\ UNCHANGED <<translation, recognition, splitting, correction, model_loading>>

\* one pass of the loop of _transcribe_via_api: client.post, then the raw-tier save
transcribe_via_api_try ==
    /\ worker.pc = "api_try"
    /\ \/ \E subs \in {"EMPTY", "RAW"} :
            /\ raw_files' = save_raw_cache(raw_files, worker.task, subs, "zh")
            /\ worker' = [NoRetryLocals(worker) EXCEPT !.pc = "post",
                                        !.subtitles = subs, !.language = "zh"]
       \/ /\ \E kind \in FailureKinds :
                worker' = [retry_failed(worker, Detail(worker.calls + 1),
                                        "api_failed") EXCEPT !.lastKind = kind]
          /\ raw_files' = raw_files
    /\ UNCHANGED <<tasks, task_queue, cache_files, pg_rows, audio_files,
                   handler, ranCfg, requests>>
    /\ UNCHANGED <<translation, recognition, splitting, correction, model_loading>>

\* _translate_subtitles: returns the lines as they are (same language, no key),
\* or writes the 95% update and returns them translated, or raises on a
\* summary whose terms are no objects
translated(td, subtitles) ==
    IF td.target_lang # "NONE" /\ subtitles \notin {"NONE", "EMPTY"}
    THEN {subtitles, "TR", "RAISED"}
    ELSE {subtitles}

\* _process_task after recognition: correction (off: no request carries
\* llm_correction), translation, and the final branch up to the local file
\* write of _save_cache
save_cache_local ==
    /\ worker.pc = "post"
    /\ \E subs \in translated(worker.task, worker.subtitles) :
        LET td == worker.task
            vid == get_video_id(td.video_url)
            data == FinalData(td, subs, worker.language)
        IN  /\ tasks' = IF subs # worker.subtitles
                        THEN update_task(tasks, td.task_id, "transcribing", 95,
                                         <<"translating">>, "NONE", "NONE")
                        ELSE tasks
            /\ IF subs = "RAISED"
               THEN /\ cache_files' = cache_files
                    /\ worker' = [worker EXCEPT !.pc = "except",
                                                !.exc = <<"translation_raised">>]
               ELSE IF subs \notin {"NONE", "EMPTY"}
               THEN /\ cache_files' =
                          Put(cache_files, vid,
                              [k \in {"service", "domain", "engine", "target_lang",
                                      "language", "subtitles"} |-> data[k]])
                    /\ worker' = [worker EXCEPT !.pc = "save_pg", !.subtitles = subs]
               ELSE /\ cache_files' = cache_files
                    /\ worker' = [worker EXCEPT !.pc = "except",
                                                !.exc = <<"no_content">>]
    /\ UNCHANGED <<task_queue, raw_files, pg_rows, audio_files,
                   handler, ranCfg, requests>>
    /\ UNCHANGED <<translation, recognition, splitting, correction, model_loading>>

\* a save in which a failed upsert raises
save_cache_pg_failure_is_fatal ==
    /\ worker.pc = "save_pg"
    /\ LET td == worker.task
           data == FinalData(td, worker.subtitles, worker.language)
       IN  \/ /\ pg_rows' = pg_upsert(pg_rows, data, TRUE)
              /\ tasks' = update_task(tasks, td.task_id, "completed", 100, <<"done">>,
                                      worker.subtitles, worker.language)
              /\ worker' = [worker EXCEPT !.pc = "tail_set"]
           \/ /\ pg_rows' = pg_rows
              /\ tasks' = tasks
              /\ worker' = [worker EXCEPT !.pc = "except", !.exc = <<"upsert_failed">>]
    /\ UNCHANGED <<task_queue, cache_files, raw_files, audio_files,
                   handler, ranCfg, requests>>
    /\ UNCHANGED <<translation, recognition, splitting, correction, model_loading>>

\* _save_cache: postgres_db.upsert_subtitles; then the completed write and the
\* test `if task_id in self.tasks`, true right after that write
save_cache_pg ==
    /\ worker.pc = "save_pg"
    /\ LET td == worker.task
           data == FinalData(td, worker.subtitles, worker.language)
       IN  /\ \E ok \in BOOLEAN : pg_rows' = pg_upsert(pg_rows, data, ok)
           /\ tasks' = update_task(tasks, td.task_id, "completed", 100, <<"done">>,
                                   worker.subtitles, worker.language)
    /\ worker' = [worker EXCEPT !.pc = "tail_set"]
    /\ UNCHANGED <<task_queue, cache_files, raw_files, audio_files,
                   handler, ranCfg, requests>>
    /\ UNCHANGED <<translation, recognition, splitting, correction, model_loading>>

\* _process_task: self.tasks[task_id]['domain'|'service'|'engine'] = ...
\* A record deleted before the test skips the writes; one deleted between the test
\* and a write makes the subscript raise KeyError.
tail_set ==
    /\ worker.pc = "tail_set"
    /\ LET td == worker.task IN
       IF td.task_id \in DOMAIN tasks
       THEN /\ tasks' = [tasks EXCEPT ![td.task_id] =
                            [@ EXCEPT !.domain = Get(td.domain, "general"),
                                      !.service = Get(td.service, "local"),
                                      !.engine = Get(td.engine, "whisper")]]
            /\ worker' = IdleWorker
       ELSE /\ tasks' = tasks
            /\ \/ worker' = IdleWorker
               \/ worker' = [worker EXCEPT !.pc = "except", !.exc = <<"KeyError">>]
    /\ UNCHANGED <<task_queue, cache_files, raw_files, pg_rows,
                   audio_files, handler, ranCfg, requests>>
    /\ UNCHANGED <<translation, recognition, splitting, correction, model_loading>>

\* a handler that swallows the exception without recording it
worker_except_no_write ==
    /\ worker.pc = "except"
    /\ worker' = IdleWorker
    /\ UNCHANGED <<tasks, task_queue, cache_files, raw_files, pg_rows,
                   audio_files, handler, ranCfg, requests>>
    /\ UNCHANGED <<translation, recognition, splitting, correction, model_loading>>

\* a worker loop without the try: the exception ends the thread
worker_except_thread_ends ==
    /\ worker.pc = "except"
    /\ worker' = [worker EXCEPT !.pc = "ended"]
    /\ UNCHANGED <<tasks, task_queue, cache_files, raw_files, pg_rows,
                   audio_files, handler, ranCfg, requests>>
    /\ UNCHANGED <<translation, recognition, splitting, correction, model_loading>>

\* _worker: except Exception as e: update_task(task_id, 'error', 0, ...)
worker_except ==
    /\ worker.pc = "except"
    /\ tasks' = update_task(tasks, worker.task.task_id, "error", 0,
                            <<"failed", Head(worker.exc)>>, "NONE", "NONE")
    /\ worker' = IdleWorker
    /\ UNCHANGED <<task_queue, cache_files, raw_files, pg_rows,
                   audio_files, handler, ranCfg, requests>>
    /\ UNCHANGED <<translation, recognition, splitting, correction, model_loading>>

WorkerNext ==
    \/ worker_get
    \/ download_audio_begin
    \/ download_audio_try
    \/ recognize_begin
    \/ transcribe_locally
    \/ transcribe_via_api_try
    \/ save_cache_local
    \/ save_cache_pg
    \/ tail_set
    \/ worker_except

\* ---------------------------------------------------------------- handlers
Respond(resp) == [HandlerIdle EXCEPT !.pc = "respond", !.resp = resp]

\* the is_match test of routes.py up to its first operand; the second operand
\* reads request.domain, which no request model declares (AttributeError)
service_matches(td, existing) == td.service = Get(existing.service, "local")

\* POST /transcribe
transcribe ==
    /\ handler.pc = "idle"
    /\ requests.submits < MaxSubmits
    /\ requests' = [requests EXCEPT !.submits = @ + 1]
    /\ \E req \in SubmitInputs :
        LET td == TaskData(req[1], req[2], req[3])
            existing == get_task(td.task_id)
        IN  IF existing # {} /\ \A e \in existing : e.status \in InFlight
            THEN /\ tasks' = tasks
                 /\ handler' = [Respond(<<"200", "in_progress", td.task_id>>)
                                   EXCEPT !.td = td]
            ELSE IF existing # {} /\ \A e \in existing :
                                        e.status = "completed" /\ ~service_matches(td, e)
            THEN /\ tasks' = update_task(tasks, td.task_id, "pending", 0,
                                         <<"config_changed">>, "EMPTY", "NONE")
                 /\ handler' = [Respond(<<"500", "AttributeError">>) EXCEPT !.td = td]
            ELSE /\ tasks' = tasks
                 /\ handler' = [Respond(<<"500", "AttributeError">>) EXCEPT !.td = td]
    /\ UNCHANGED <<task_queue, cache_files, raw_files, pg_rows,
                   audio_files, worker, ranCfg>>
    /\ UNCHANGED <<translation, recognition, splitting, correction, model_loading>>

\* POST /transcribe_playlist: yt-dlp has listed the videos of the playlist
transcribe_playlist ==
    /\ handler.pc = "idle"
    /\ requests.submits < MaxSubmits
    /\ requests' = [requests EXCEPT !.submits = @ + 1]
    /\ \E req \in PlaylistInputs :
        handler' = [HandlerIdle EXCEPT !.pc = "pl_loop", !.rest = req[1],
                       !.td = [NoTaskData EXCEPT !.service = req[2],
                                                 !.target_lang = req[3]]]
    /\ UNCHANGED <<tasks, task_queue, cache_files, raw_files, pg_rows,
                   audio_files, worker, ranCfg>>
    /\ UNCHANGED <<translation, recognition, splitting, correction, model_loading>>

\* transcribe_playlist: one pass of its loop, up to add_task's queue.put
playlist_loop ==
    /\ handler.pc = "pl_loop"
    /\ IF handler.rest = <<>>
       THEN /\ handler' = Respond(<<"200", "playlist_queued">>)
            /\ task_queue' = task_queue
       ELSE LET td == TaskData(Head(handler.rest), handler.td.service,
                               handler.td.target_lang)
                existing == get_task(td.task_id)
            IN  IF existing # {} /\ \A e \in existing :
                                       e.status = "completed" /\ service_matches(td, e)
                THEN /\ handler' = Respond(<<"500", "AttributeError">>)
                     /\ task_queue' = task_queue
                ELSE /\ Len(task_queue) < MaxQueue
                     /\ task_queue' = Append(task_queue, td)
                     /\ handler' = [handler EXCEPT !.pc = "pl_write", !.td = td,
                                                   !.rest = Tail(@)]
    /\ UNCHANGED <<tasks, cache_files, raw_files, pg_rows, audio_files,
                   worker, ranCfg, requests>>
    /\ UNCHANGED <<translation, recognition, splitting, correction, model_loading>>

\* add_task after queue.put
add_task ==
    /\ handler.pc = "pl_write"
    /\ tasks' = add_task_write(tasks, handler.td)
    /\ handler' = [handler EXCEPT !.pc = "pl_loop"]
    /\ UNCHANGED <<task_queue, cache_files, raw_files, pg_rows,
                   audio_files, worker, ranCfg, requests>>
    /\ UNCHANGED <<translation, recognition, splitting, correction, model_loading>>

\* GET /task/{task_id}: the task, or 404
task_status_response(task_id) ==
    IF get_task(task_id) = {} THEN <<"404">> ELSE <<"200", tasks[task_id].status>>

\* GET /task/{task_id} reads and answers; it writes nothing
get_task_status ==
    /\ handler.pc = "idle"
    /\ \E task_id \in QueryIds :
        task_status_response(task_id)[1] \in {"200", "404"}
    /\ UNCHANGED vars
    /\ UNCHANGED <<translation, recognition, splitting, correction, model_loading>>

\* TaskManager.get_task_by_video_id
get_task_by_video_id(video_id, ok) ==
    LET done == {t \in DOMAIN tasks : tasks[t].video_id = video_id
                                       /\ tasks[t].status = "completed"}
        cached == get_cached_subtitles(video_id, ok)
    IN  IF done # {} THEN <<"200", "completed", "task">>
        ELSE IF cached # {} THEN <<"200", "completed", "cached">>
        ELSE <<"404">>

\* GET /status/{video_id} reads and answers; it writes nothing
get_video_status ==
    /\ handler.pc = "idle"
    /\ \E video_id \in QueryIds, ok \in BOOLEAN :
        get_task_by_video_id(video_id, ok)[1] \in {"200", "404"}
    /\ UNCHANGED vars
    /\ UNCHANGED <<translation, recognition, splitting, correction, model_loading>>

\* DELETE /cache/{video_id}
delete_cache ==
    /\ handler.pc = "idle"
    /\ requests.deletes < MaxDeletes
    /\ requests' = [requests EXCEPT !.deletes = @ + 1]
    /\ \E video_id \in DeleteIds :
        handler' = [HandlerIdle EXCEPT
                       !.pc = "del_final", !.video_id = video_id,
                       \* history: no job for video_id is queued or in processing
                       !.quiet = /\ (\A i \in 1..Len(task_queue) :
                                        task_queue[i].task_id # video_id)
                                 /\ (worker.pc = "idle"
                                     \/ worker.task.task_id # video_id)]
    /\ UNCHANGED <<tasks, task_queue, cache_files, raw_files, pg_rows,
                   audio_files, worker, ranCfg>>
    /\ UNCHANGED <<translation, recognition, splitting, correction, model_loading>>

\* a delete that lets the failure of the first removal end the call
delete_final_file_aborts ==
    /\ handler.pc = "del_final"
    /\ LET vid == handler.video_id IN
       \E ok \in BOOLEAN :
         IF vid \in DOMAIN cache_files /\ ~ok
         THEN /\ cache_files' = cache_files
              /\ handler' = [HandlerIdle EXCEPT
                                !.pc = "respond", !.video_id = vid,
                                !.failed = {"final_cache"}, !.resp = <<"500">>]
         ELSE /\ cache_files' = Del(cache_files, vid)
              /\ handler' = [handler EXCEPT
                                !.pc = "del_raw",
                                !.deleted = IF vid \in DOMAIN cache_files
                                            THEN @ \cup {"final_cache"} ELSE @]
    /\ UNCHANGED <<tasks, task_queue, raw_files, pg_rows, audio_files,
                   worker, ranCfg, requests>>
    /\ UNCHANGED <<translation, recognition, splitting, correction, model_loading>>

\* delete_video_cache, 1: the local final file
delete_final_file ==
    /\ handler.pc = "del_final"
    /\ LET vid == handler.video_id IN
       \E ok \in BOOLEAN :
         IF vid \in DOMAIN cache_files /\ ok
         THEN /\ cache_files' = Del(cache_files, vid)
              /\ handler' = [handler EXCEPT !.pc = "del_raw",
                                            !.deleted = @ \cup {"final_cache"}]
         ELSE /\ cache_files' = cache_files
              /\ handler' = [handler EXCEPT
                                !.pc = "del_raw",
                                !.failed = IF vid \in DOMAIN cache_files
                                           THEN @ \cup {"final_cache"} ELSE @]
    /\ UNCHANGED <<tasks, task_queue, raw_files, pg_rows, audio_files,
                   worker, ranCfg, requests>>
    /\ UNCHANGED <<translation, recognition, splitting, correction, model_loading>>

\* delete_video_cache, 2: the local raw file
delete_raw_file ==
    /\ handler.pc = "del_raw"
    /\ LET vid == handler.video_id IN
       \E ok \in BOOLEAN :
         IF vid \in DOMAIN raw_files /\ ok
         THEN /\ raw_files' = Del(raw_files, vid)
              /\ handler' = [handler EXCEPT !.pc = "del_mem",
                                            !.deleted = @ \cup {"raw_cache"}]
         ELSE /\ raw_files' = raw_files
              /\ handler' = [handler EXCEPT
                                !.pc = "del_mem",
                                !.failed = IF vid \in DOMAIN raw_files
                                           THEN @ \cup {"raw_cache"} ELSE @]
    /\ UNCHANGED <<tasks, task_queue, cache_files, pg_rows, audio_files,
                   worker, ranCfg, requests>>
    /\ UNCHANGED <<translation, recognition, splitting, correction, model_loading>>

\* delete_video_cache, 3: the in-memory task
delete_memory_task ==
    /\ handler.pc = "del_mem"
    /\ LET vid == handler.video_id IN
       IF vid \in DOMAIN tasks
       THEN /\ tasks' = Del(tasks, vid)
            /\ handler' = [handler EXCEPT !.pc = "del_pg",
                                          !.deleted = @ \cup {"memory_task"}]
       ELSE /\ tasks' = tasks
            /\ handler' = [handler EXCEPT !.pc = "del_pg"]
    /\ UNCHANGED <<task_queue, cache_files, raw_files, pg_rows,
                   audio_files, worker, ranCfg, requests>>
    /\ UNCHANGED <<translation, recognition, splitting, correction, model_loading>>

\* PostgresDB.delete_by_video_id
pg_delete(rows, video_id, ok) ==
    IF ok THEN Del(rows, video_id) ELSE rows

\* delete_video_cache, 4: the PostgreSQL row, and the result
delete_pg_row ==
    /\ handler.pc = "del_pg"
    /\ LET vid == handler.video_id IN
       \E ok \in BOOLEAN :
         LET deleted == IF ok
                        THEN handler.deleted \cup {"postgres_record"}
                        ELSE handler.deleted
         IN  /\ pg_rows' = pg_delete(pg_rows, vid, ok)
             /\ handler' = [HandlerIdle EXCEPT
                               !.pc = "respond", !.video_id = vid, !.deleted = deleted,
                               !.quiet = handler.quiet,
                               !.failed = IF ok THEN handler.failed
                                          ELSE handler.failed \cup {"postgres_record"},
                               !.resp = IF deleted # {} THEN <<"200", "deleted">>
                                        ELSE <<"404">>]
    /\ UNCHANGED <<tasks, task_queue, cache_files, raw_files,
                   audio_files, worker, ranCfg, requests>>
    /\ UNCHANGED <<translation, recognition, splitting, correction, model_loading>>

\* the response leaves; the event loop takes the next request
send_response ==
    /\ handler.pc = "respond"
    /\ handler' = HandlerIdle
    /\ UNCHANGED <<tasks, task_queue, cache_files, raw_files, pg_rows,
                   audio_files, worker, ranCfg, requests>>
    /\ UNCHANGED <<translation, recognition, splitting, correction, model_loading>>

HandlerNext ==
    \/ transcribe
    \/ transcribe_playlist
    \/ playlist_loop
    \/ add_task
    \/ get_task_status
    \/ get_video_status
    \/ delete_cache
    \/ delete_final_file
    \/ delete_raw_file
    \/ delete_memory_task
    \/ delete_pg_row
    \/ send_response

Next == WorkerNext \/ HandlerNext

Spec == Init /\ [][Next]_vars

\* the worker thread is scheduled as long as it has something to do
LiveSpec == Spec /\ WF_vars(WorkerNext)

\* ------------------------------------- _translate_subtitles: its steps
normalize(l) ==
    CASE l = "NONE" -> "auto"
      [] l = "zh-CN" -> "zh"
      [] OTHER -> l

\* has_chinese of the first ten lines joined
is_source_chinese(subtitles) ==
    \E k \in 1..Len(subtitles) : k <= 10 /\ has_chinese(subtitles[k].text)

\* languages compatible, or the source already Chinese: nothing to translate
skips_translation(subtitles, target_lang, src_lang, llm, llm_correction) ==
    LET src_base == normalize(src_lang)
        tgt_base == normalize(target_lang)
    IN  /\ \/ src_base = tgt_base /\ src_base # "auto"
           \/ is_source_chinese(subtitles) /\ tgt_base = "zh"
        /\ (~llm_correction \/ llm = "lm_studio")

batch_size(llm) == IF llm = "lm_studio" THEN BatchLocal ELSE BatchRemote

\* subtitles[i : i + n]
Batch(subtitles, i, n) ==
    SubSeq(subtitles, i + 1, IF i + n < Len(subtitles) THEN i + n ELSE Len(subtitles))

accepted_without_key_count(res, batch) ==
    res.kind = "dict" /\ DOMAIN res.dict # {}

\* res and isinstance(res, dict) and len(res) >= len(batch)
accepted(res, batch) ==
    /\ res.kind = "dict" /\ DOMAIN res.dict # {}
    /\ Cardinality(DOMAIN res.dict) >= Len(batch)

\* the translation of the line at index j of its batch
map_back(use_result, j) ==
    LET key == str(j) IN
    IF key \notin DOMAIN use_result
    THEN ""
    ELSE LET val == use_result[key] IN
         IF val.isdict
         THEN IF val.free # "" THEN val.free
              ELSE IF val.direct # "" THEN val.direct ELSE ""
         ELSE val.text

\* translated_subtitles.extend(batch), the lines being those of subtitles, and
\* the loop's next round or the return
extend(t, batch) ==
    LET subs == [k \in 1..Len(t.subtitles) |->
                    IF k > t.i /\ k <= t.i + Len(batch) THEN batch[k - t.i]
                    ELSE t.subtitles[k]]
        out == t.translated_subtitles \o batch
        n == batch_size(t.llm)
        t1 == [t EXCEPT !.subtitles = subs, !.translated_subtitles = out]
    IN  IF t.i + n < Len(t.subtitles)
        THEN [t1 EXCEPT !.pc = "faith", !.i = t.i + n, !.attempt = 0,
                        !.faith_result = NoRes]
        ELSE [t1 EXCEPT !.pc = "done", !.outcome = "returned", !.result = out]

MainUnchanged ==
    UNCHANGED <<tasks, task_queue, cache_files, raw_files, pg_rows,
                audio_files, worker, handler, ranCfg, requests>>

\* the worker, the event loop and their stores at start, nothing submitted
MainInit ==
    /\ tasks = <<>>
    /\ task_queue = <<>>
    /\ cache_files = <<>>
    /\ raw_files = <<>>
    /\ pg_rows = <<>>
    /\ audio_files = {}
    /\ worker = IdleWorker
    /\ handler = HandlerIdle
    /\ ranCfg = [v \in Videos |-> <<>>]
    /\ requests = [submits |-> 0, deletes |-> 0]

\* the checks before any request is made; no request carries llm_correction.
\* The progress write (95) goes to the task store, which this call has none of.
translate_begin ==
    /\ translation.pc = "start"
    /\ LET t == translation IN
       translation' =
         IF t.subtitles = <<>> \/ t.target_lang = "NONE"
            \/ skips_translation(t.subtitles, t.target_lang, t.src_lang, t.llm, FALSE)
            \/ t.llm = "no_key"
         THEN [t EXCEPT !.pc = "done", !.outcome = "returned", !.result = t.subtitles]
         ELSE [t EXCEPT !.pc = "summary"]
    /\ MainUnchanged
    /\ UNCHANGED <<recognition, splitting, correction, model_loading>>

\* Step 1: the summary; t.get('src') on a term that is no object raises
summarize ==
    /\ translation.pc = "summary"
    /\ \E summary_data \in SummaryResponses :
        translation' =
          IF summary_data.kind = "dict" /\ summary_data.terms = "strings"
          THEN [translation EXCEPT !.pc = "done", !.outcome = "raised"]
          ELSE [translation EXCEPT !.pc = "faith", !.i = 0, !.attempt = 0]
    /\ MainUnchanged
    /\ UNCHANGED <<recognition, splitting, correction, model_loading>>

\* one request of the faithfulness pass, and the fallback after the last one
faithfulness_attempt ==
    /\ translation.pc = "faith"
    /\ \E res \in Responses :
        LET t == translation
            batch == Batch(t.subtitles, t.i, batch_size(t.llm))
            t1 == [t EXCEPT !.res = res,
                            !.asked = [faith |-> IF t.attempt = 0 THEN 1 ELSE t.asked.faith + 1,
                                       express |-> 0]]
        IN  translation' =
              IF accepted(res, batch)
              THEN [t1 EXCEPT !.pc = "express", !.faith_result = res, !.attempt = 0]
              ELSE IF t.attempt + 1 < pass_attempts
              THEN [t1 EXCEPT !.attempt = t.attempt + 1]
              ELSE extend([t1 EXCEPT !.use_result = NoRes],
                          [j \in 1..Len(batch) |-> [batch[j] EXCEPT !.translation = ""]])
    /\ MainUnchanged
    /\ UNCHANGED <<recognition, splitting, correction, model_loading>>

\* one request of the expressiveness pass, and the map back after the last one
expressiveness_attempt ==
    /\ translation.pc = "express"
    /\ \E res \in Responses :
        LET t == translation
            batch == Batch(t.subtitles, t.i, batch_size(t.llm))
            t1 == [t EXCEPT !.res = res, !.asked.express = t.asked.express + 1]
            use_result == IF accepted(res, batch) THEN res ELSE t.faith_result
        IN  translation' =
              IF ~accepted(res, batch) /\ t.attempt + 1 < pass_attempts
              THEN [t1 EXCEPT !.attempt = t.attempt + 1]
              ELSE extend([t1 EXCEPT !.use_result = use_result],
                          [j \in 1..Len(batch) |->
                              [batch[j] EXCEPT !.translation = map_back(use_result.dict, j - 1)]])
    /\ MainUnchanged
    /\ UNCHANGED <<recognition, splitting, correction, model_loading>>

\* one call of _translate_subtitles on any lines, languages and LLM setting
TrInit ==
    /\ MainInit
    /\ recognition = NotRecognizing
    /\ splitting = NotSplitting
    /\ correction = NotCorrecting
    /\ model_loading = NotLoading
    /\ \E subtitles \in LineSeqs, target_lang \in TrTargets, src_lang \in SrcLangs,
          llm \in LlmConfigs :
        translation = [NotTranslating EXCEPT !.pc = "start", !.given = subtitles,
                          !.subtitles = subtitles, !.target_lang = target_lang,
                          !.src_lang = src_lang, !.llm = llm]

TrNext ==
    \/ translate_begin
    \/ summarize
    \/ faithfulness_attempt
    \/ expressiveness_attempt

TrSpec == TrInit /\ [][TrNext]_vars

\* ------------------------- recognition: segments into the subtitle sequence
MaxSegments == 2
\* parts that split_text returns, over all segments of one recognition
MaxParts == 2
MaxWords == 2

WordTimes == {0, 20, 1801}

\* a recognizer word: start, end, and the length of word.strip().lower();
\* a blank word, of which the times are never read, comes with one pair only
Words ==
    [start : WordTimes, end : WordTimes, len : {2}]
        \cup {[start |-> 0, end |-> 0, len |-> 0]}

WordSeqs == UNION {[1..n -> Words] : n \in 0..MaxWords}

\* start and end of a segment
SegmentSpans ==
    {<<0, 2 * Second>>, <<0, 5 * Second>>, <<0, 6 * Second>>, <<0, 10 * Second>>,
     <<0, 11 * Second>>, <<5 * Second, 1801>>, <<0, 20>>}

\* texts of segments that split_text leaves whole
UnsplitTexts ==
    {<<"x">>, <<" ">>, <<"dianzan">>, <<"dianzan", "!">>, <<"x", "dianzan">>,
     <<"mingjing", "x">>, <<"mingjing", "x31">>, <<"dianzan_trad">>}

\* parts of segments that split_text cuts
PartTexts == {<<"x">>, <<"x", "X", "x">>, <<"dianzan">>, <<" ">>}

RECURSIVE Concat(_)
Concat(parts) == IF parts = <<>> THEN <<>> ELSE Head(parts) \o Concat(Tail(parts))

\* the segments for which split_text returns n parts
SegmentsOf(n) ==
    IF n = 1
    THEN {[start |-> span[1], end |-> span[2], text |-> text,
           parts |-> <<convert(strip(text))>>, words |-> <<>>] :
             span \in SegmentSpans, text \in UnsplitTexts}
    ELSE {[start |-> span[1], end |-> span[2], text |-> Concat(parts),
           parts |-> parts, words |-> words] :
             span \in SegmentSpans, parts \in [1..n -> PartTexts], words \in WordSeqs}

RECURSIVE SegmentSeqs(_, _)
SegmentSeqs(m, b) ==
    {<<>>} \cup
      (IF m = 0 THEN {}
       ELSE UNION {{<<s>> \o rest : s \in SegmentsOf(n), rest \in SegmentSeqs(m - 1, b - n)} :
                     n \in 1..b})

NoneTime == -1

\* the while loop over the words for one part: words are taken from word_idx
\* on, blank ones passed over, until their length reaches that of the part
RECURSIVE collect(_, _, _, _, _, _, _)
collect(words, word_idx, part_start, content, last_end, need, first) ==
    IF word_idx > Len(words)
    THEN [word_idx |-> word_idx, part_start |-> part_start, last_end |-> last_end,
          first |-> first, last |-> IF first = 0 THEN 0 ELSE word_idx - 1]
    ELSE LET w == words[word_idx] IN
         IF w.len = 0
         THEN collect(words, word_idx + 1, part_start, content, last_end, need, first)
         ELSE LET start == IF part_start = NoneTime THEN Max(w.start, last_end)
                           ELSE part_start
                  f == IF first = 0 THEN word_idx ELSE first
              IN  IF content + w.len >= need
                  THEN [word_idx |-> word_idx + 1, part_start |-> start,
                        last_end |-> w.end, first |-> f, last |-> word_idx]
                  ELSE collect(words, word_idx + 1, start, content + w.len, w.end, need, f)

e_time_bumped_when_less(s_time, last_end) ==
    IF round2(last_end) < s_time THEN s_time + Epsilon ELSE round2(last_end)

\* e_time = round(last_end, 2), and s_time + 0.1 if that is not after s_time
e_time(s_time, last_end) ==
    IF round2(last_end) <= s_time THEN s_time + Epsilon ELSE round2(last_end)

\* the for loop over the parts of one segment: a record for every part that
\* is not blank, with the words it took and whether the line is appended
RECURSIVE align(_, _, _, _, _, _)
align(path, parts, p, words, word_idx, last_end) ==
    IF p > Len(parts) THEN <<>>
    ELSE IF part_cleaned(parts[p]) = <<>>
    THEN align(path, parts, p + 1, words, word_idx, last_end)
    ELSE LET c == collect(words, word_idx, NoneTime, 0, last_end,
                          len(part_cleaned(parts[p])), 0)
             s_time == round2(IF c.part_start # NoneTime THEN c.part_start
                              ELSE c.last_end)
             e == e_time(s_time, c.last_end)
         IN  <<[mode |-> "aligned", part |-> p, text |-> parts[p],
                start |-> s_time, end |-> e,
                first |-> c.first, last |-> c.last, last_end |-> c.last_end,
                kept |-> path = "api" \/ ~filtered(text_clean(parts[p]), e - s_time)]>>
               \o align(path, parts, p + 1, words, c.word_idx, c.last_end)

\* round(seg['start'] + i * p_dur, 2) with p_dur = duration / n
share(seg, i, n) ==
    3 * ((2 * (n * seg.start + i * (seg.end - seg.start)) + 3 * n) \div (6 * n))

proportional(seg) ==
    [p \in 1..Len(seg.parts) |->
        [mode |-> "proportional", part |-> p, text |-> seg.parts[p],
         start |-> share(seg, p - 1, Len(seg.parts)),
         end |-> share(seg, p, Len(seg.parts)),
         first |-> 0, last |-> 0, last_end |-> seg.end, kept |-> TRUE]]

unsplit(seg, text) ==
    <<[mode |-> "unsplit", part |-> 0, text |-> text,
       start |-> round2(seg.start), end |-> round2(seg.end),
       first |-> 0, last |-> 0, last_end |-> seg.end, kept |-> TRUE]>>

\* one round of the loop of _transcribe_locally: what it does with a segment
locally(seg) ==
    LET text == strip(seg.text) IN
    IF text = <<>> THEN <<>>
    ELSE IF Len(seg.parts) <= 1 \/ seg.words = <<>>
    THEN unsplit(seg, convert(text))
    ELSE align("local", seg.parts, 1, seg.words, 1, seg.start)

\* words within a second of the segment, or all of them if there are none
relevant_words(api_words, seg) ==
    LET near == SelectSeq(api_words,
                    LAMBDA w : w.start >= seg.start - Second /\ w.end <= seg.end + Second)
    IN  IF near = <<>> THEN api_words ELSE near

\* one round of the loop of _transcribe_via_api; local_words is what the
\* local pass for word timings gives, if it does not fail
via_api(seg, local_words) ==
    LET text == strip(seg.text)
        api_words == IF Len(seg.parts) > 1 /\ seg.words = <<>> /\ local_words.ok
                     THEN local_words.words ELSE seg.words
    IN  IF text = <<>> THEN <<>>
        ELSE IF filtered(text_clean(text), seg.end - seg.start) THEN <<>>
        ELSE IF Len(seg.parts) > 1 /\ api_words # <<>>
        THEN align("api", seg.parts, 1, relevant_words(api_words, seg), 1, seg.start)
        ELSE IF Len(seg.parts) > 1 THEN proportional(seg)
        ELSE unsplit(seg, convert(text))

Subtitle(l) == [start |-> l.start, end |-> l.end, text |-> l.text]

\* the lines of one segment, numbered with the segment, and those of them
\* that are appended to subtitles
segment_done(r, made) ==
    LET k == r.k + 1
        kept == SelectSeq(made, LAMBDA l : l.kept)
    IN  [r EXCEPT !.k = k,
                  !.made = [j \in 1..Len(made) |->
                              [seg |-> k, mode |-> made[j].mode, part |-> made[j].part,
                               text |-> made[j].text, start |-> made[j].start,
                               end |-> made[j].end, first |-> made[j].first,
                               last |-> made[j].last, last_end |-> made[j].last_end,
                               kept |-> made[j].kept]],
                  !.subtitles = r.subtitles \o [j \in 1..Len(kept) |-> Subtitle(kept[j])],
                  !.pc = IF k = Len(r.segments) THEN "return" ELSE "loop"]

OthersUnchanged == UNCHANGED <<translation, splitting, correction, model_loading>>

segment_locally ==
    /\ recognition.pc = "loop" /\ recognition.path = "local"
    /\ recognition' =
         segment_done(recognition, locally(recognition.segments[recognition.k + 1]))
    /\ MainUnchanged
    /\ OthersUnchanged

segment_via_api ==
    /\ recognition.pc = "loop" /\ recognition.path = "api"
    /\ recognition' =
         segment_done(recognition, via_api(recognition.segments[recognition.k + 1],
                                           recognition.local_words))
    /\ MainUnchanged
    /\ OthersUnchanged

\* return subtitles, language
recognition_return ==
    /\ recognition.pc = "return"
    /\ recognition' = [recognition EXCEPT !.pc = "done"]
    /\ MainUnchanged
    /\ OthersUnchanged

NoLocalWords == [ok |-> FALSE, words |-> <<>>]

\* whether the local pass for word timings is asked for at all
needs_local_words(segments) ==
    \E k \in 1..Len(segments) : Len(segments[k].parts) > 1 /\ segments[k].words = <<>>

\* one recognition, local or by the API, of any segments
RecInit ==
    /\ MainInit
    /\ translation = NotTranslating
    /\ splitting = NotSplitting
    /\ correction = NotCorrecting
    /\ model_loading = NotLoading
    /\ \E path \in {"local", "api"}, segments \in SegmentSeqs(MaxSegments, MaxParts) \ {<<>>} :
        \E local_words \in IF path = "api" /\ needs_local_words(segments)
                           THEN {NoLocalWords} \cup {[ok |-> TRUE, words |-> ws] : ws \in WordSeqs}
                           ELSE {NoLocalWords} :
          recognition = [pc |-> "loop", path |-> path, segments |-> segments,
                         local_words |-> local_words, k |-> 0, made |-> <<>>,
                         subtitles |-> <<>>]

RecNext ==
    \/ segment_locally
    \/ segment_via_api
    \/ recognition_return

RecSpec == RecInit /\ [][RecNext]_vars

\* ------------------------------------------------- split_text: its inputs
\* A text is a sequence of characters: "x" a letter or a Chinese character,
\* "c" the connective 但, " ", "," and ".". Every symbol is one character long.
MaxPieces == 4

Pieces == {<<"x">>, <<"x", "x", "x", "x">>, <<"c">>, <<",">>, <<".">>, <<" ">>}

RECURSIVE PieceSeqs(_)
PieceSeqs(n) ==
    IF n = 0 THEN {<<>>}
    ELSE LET shorter == PieceSeqs(n - 1)
         IN  shorter \cup {t \o p : t \in shorter, p \in Pieces}

\* the callers strip the text and skip an empty one
SplitTexts == {t \in PieceSeqs(MaxPieces) : t # <<>> /\ strip(t) = t}

MaxLens == {2, 4, 8}

Langs == {"zh", "en"}

\* ---------------------------------------------- core/utils.py: split_text
\* the chunks of `while len(text) > max_len`, and what is left
RECURSIVE cut(_, _)
cut(text, max_len) ==
    IF Len(text) > max_len
    THEN <<SubSeq(text, 1, max_len)>> \o cut(SubSeq(text, max_len + 1, Len(text)), max_len)
    ELSE IF text # <<>> THEN <<text>> ELSE <<>>

\* text.split(' ')
RECURSIVE split_blank(_, _)
split_blank(text, word) ==
    IF text = <<>> THEN <<word>>
    ELSE IF Head(text) = " " THEN <<word>> \o split_blank(Tail(text), <<>>)
    ELSE split_blank(Tail(text), word \o <<Head(text)>>)

\* the loop over the words of an English text
RECURSIVE word_lines(_, _, _)
word_lines(words, current_line, max_len) ==
    IF words = <<>> THEN (IF current_line # <<>> THEN <<current_line>> ELSE <<>>)
    ELSE LET word == Head(words)
         IN  IF current_line = <<>> THEN word_lines(Tail(words), word, max_len)
             ELSE IF Len(current_line) + 1 + Len(word) <= max_len
             THEN word_lines(Tail(words), current_line \o <<" ">> \o word, max_len)
             ELSE <<current_line>> \o word_lines(Tail(words), word, max_len)

\* a word longer than max_len is cut
RECURSIVE force_split(_, _)
force_split(lines, max_len) ==
    IF lines = <<>> THEN <<>>
    ELSE (IF Len(Head(lines)) > max_len THEN cut(Head(lines), max_len) ELSE <<Head(lines)>>)
         \o force_split(Tail(lines), max_len)

robust_split_by_length(text, max_len, lang) ==
    IF Len(text) <= max_len THEN <<text>>
    ELSE IF lang = "en" THEN force_split(word_lines(split_blank(text, <<>>), <<>>, max_len), max_len)
    ELSE cut(text, max_len)

\* doc = nlp(text): every character that is not a blank is one token; the
\* positions of the tokens in the text
RECURSIVE tokens(_, _)
tokens(text, k) ==
    IF k > Len(text) THEN <<>>
    ELSE (IF text[k] = " " THEN <<>> ELSE <<k>>) \o tokens(text, k + 1)

\* doc[a:b].text.strip(), tokens a..b of the doc
span(text, doc, a, b) == IF a > b THEN <<>> ELSE strip(SubSeq(text, doc[a], doc[b]))

is_punct(ch) == ch \in {",", "."}

Commas(text) == {k \in 1..Len(text) : text[k] = ","}

\* analyze_comma at token j: is_valid_phrase of the right phrase is the
\* parser's answer (valid holds the commas where it is true), and both sides
\* need more than three words
analyze_comma(text, doc, start, j, valid) ==
    LET left_words == {i \in Max(start, j - 9)..(j - 1) : ~is_punct(text[doc[i]])}
        n == Len(doc)
        right_last == IF n < j + 9 THEN n ELSE j + 9
        right_words == {i \in (j + 1)..right_last :
                          \A h \in (j + 1)..i : ~is_punct(text[doc[h]])}
    IN  /\ doc[j] \in valid
        /\ ~(Cardinality(left_words) <= 3 \/ Cardinality(right_words) <= 3)

\* the loop over the tokens: the sentences, and the remaining text
RECURSIVE sentences_from(_, _, _, _, _, _)
sentences_from(text, doc, start, j, valid, max_len) ==
    IF j > Len(doc)
    THEN IF start <= Len(doc) THEN <<span(text, doc, start, Len(doc))>> ELSE <<>>
    ELSE LET ch == text[doc[j]]
             part == span(text, doc, start, j - 1)
         IN  IF ch = "," /\ analyze_comma(text, doc, start, j, valid)
                /\ 10 * Len(part) > 3 * max_len
             THEN <<part>> \o sentences_from(text, doc, j + 1, j + 1, valid, max_len)
             ELSE IF ch = "."
             THEN <<span(text, doc, start, j)>>
                  \o sentences_from(text, doc, j + 1, j + 1, valid, max_len)
             ELSE sentences_from(text, doc, start, j + 1, valid, max_len)

\* the post-processing loop; `current += s if not current else (current + " " + s)`
RECURSIVE merge(_, _, _, _)
merge(sentences, current, max_len, lang) ==
    IF sentences = <<>> THEN (IF current # <<>> THEN <<current>> ELSE <<>>)
    ELSE LET s == Head(sentences)
             rest == Tail(sentences)
         IN  IF s = <<>> THEN merge(rest, current, max_len, lang)
             ELSE IF Len(current) + Len(s) > max_len
             THEN IF current # <<>> THEN <<current>> \o merge(rest, s, max_len, lang)
                  ELSE (IF Len(s) > max_len THEN robust_split_by_length(s, max_len, lang)
                        ELSE <<s>>) \o merge(rest, current, max_len, lang)
             ELSE merge(rest,
                        current \o (IF current = <<>> THEN s ELSE current \o <<" ">> \o s),
                        max_len, lang)

\* [s.strip() for s in final_sentences if s.strip()]
RECURSIVE stripped(_)
stripped(lines) ==
    IF lines = <<>> THEN <<>>
    ELSE (IF strip(Head(lines)) # <<>> THEN <<strip(Head(lines))>> ELSE <<>>)
         \o stripped(Tail(lines))

split_text_by_spacy(text, valid, max_len, lang) ==
    LET doc == tokens(text, 1)
    IN  stripped(merge(sentences_from(text, doc, 1, 1, valid, max_len), <<>>, max_len, lang))

\* split_text of core/utils.py: spaCy when its model loads, else by length
split_text(text, max_len, lang, nlp, valid) ==
    IF nlp THEN split_text_by_spacy(convert(text), valid, max_len, lang)
    ELSE robust_split_by_length(convert(text), max_len, lang)

\* ---------------------------------------------------- server.py: split_text
sentence_endings == {"."}

minor_punctuations == {","}

\* re.split with a group: the texts between the marks, and the marks
RECURSIVE re_split(_, _, _)
re_split(text, marks, piece) ==
    IF text = <<>> THEN <<piece>>
    ELSE IF Head(text) \in marks
    THEN <<piece, <<Head(text)>>>> \o re_split(Tail(text), marks, <<>>)
    ELSE re_split(Tail(text), marks, piece \o <<Head(text)>>)

\* each text with the mark after it: part += sentences[i + 1]; i += 2
RECURSIVE with_marks(_)
with_marks(pieces) ==
    IF Len(pieces) >= 2
    THEN <<pieces[1] \o pieces[2]>> \o with_marks(SubSeq(pieces, 3, Len(pieces)))
    ELSE pieces

\* sub_part.strip().startswith(conn) for a connector
can_split_at_connector(sub_part) ==
    LET t == strip(sub_part) IN t # <<>> /\ t[1] = "c"

\* the loop over the parts at the commas: the lines appended, and sub_current
RECURSIVE sub_loop(_, _, _)
sub_loop(sub_parts, sub_current, max_len) ==
    IF sub_parts = <<>> THEN [out |-> <<>>, current |-> sub_current]
    ELSE LET sub_part == Head(sub_parts)
             pushed == LET r == sub_loop(Tail(sub_parts), sub_part, max_len)
                       IN  [out |-> <<strip(sub_current)>> \o r.out, current |-> r.current]
         IN  IF Len(sub_current) + Len(sub_part) > max_len /\ sub_current # <<>>
             THEN pushed
             ELSE IF /\ can_split_at_connector(sub_part)
                     /\ sub_current # <<>>
                     /\ 2 * Len(sub_current) > max_len
             THEN pushed
             ELSE sub_loop(Tail(sub_parts), sub_current \o sub_part, max_len)

\* while len(current) > max_len: result.append(current[:max_len].strip())
RECURSIVE hard_cut(_, _)
hard_cut(current, max_len) ==
    IF Len(current) > max_len
    THEN LET r == hard_cut(SubSeq(current, max_len + 1, Len(current)), max_len)
         IN  [out |-> <<strip(SubSeq(current, 1, max_len))>> \o r.out, current |-> r.current]
    ELSE [out |-> <<>>, current |-> current]

\* the loop over the sentences: the lines appended, and current
RECURSIVE sentence_loop(_, _, _)
sentence_loop(parts, current, max_len) ==
    IF parts = <<>> THEN [out |-> <<>>, current |-> current]
    ELSE LET part == Head(parts)
         IN  IF Len(part) > max_len
             THEN LET sub == sub_loop(with_marks(re_split(part, minor_punctuations, <<>>)),
                                      <<>>, max_len)
                      left == hard_cut(sub.current, max_len)
                      r == sentence_loop(Tail(parts),
                                         IF strip(left.current) # <<>> THEN left.current
                                         ELSE current,
                                         max_len)
                  IN  [out |-> sub.out \o left.out \o r.out, current |-> r.current]
             ELSE IF Len(current) + Len(part) > max_len /\ current # <<>>
             THEN LET r == sentence_loop(Tail(parts), part, max_len)
                  IN  [out |-> <<strip(current)>> \o r.out, current |-> r.current]
             ELSE sentence_loop(Tail(parts), current \o part, max_len)

\* [r for r in result if r]
RECURSIVE non_empty(_)
non_empty(lines) ==
    IF lines = <<>> THEN <<>>
    ELSE (IF Head(lines) # <<>> THEN <<Head(lines)>> ELSE <<>>) \o non_empty(Tail(lines))

server_split_text(text0, max_len) ==
    LET text == convert(text0)
        loop == sentence_loop(with_marks(re_split(text, sentence_endings, <<>>)), <<>>, max_len)
        left == hard_cut(loop.current, max_len)
        result == loop.out \o left.out
                  \o (IF strip(left.current) # <<>> THEN <<strip(left.current)>> ELSE <<>>)
    IN  IF Len(text) <= max_len THEN <<text>>
        ELSE IF non_empty(result) # <<>> THEN non_empty(result) ELSE <<text>>

\* ------------------------------------------------------ split_text: one call
\* who: the split_text of core/utils.py, or the one of server.py, which is
\* only called with a text longer than 25, its max_len
call_split_text ==
    /\ splitting.pc = "call" /\ splitting.who = "utils"
    /\ \E valid \in SUBSET (IF splitting.nlp THEN Commas(splitting.text) ELSE {}) :
         splitting' = [splitting EXCEPT
            !.pc = "done",
            !.result = split_text(splitting.text, splitting.max_len, splitting.lang,
                                  splitting.nlp, valid)]
    /\ MainUnchanged
    /\ UNCHANGED <<translation, recognition, correction, model_loading>>

call_server_split_text ==
    /\ splitting.pc = "call" /\ splitting.who = "server"
    /\ splitting' = [splitting EXCEPT
          !.pc = "done",
          !.result = server_split_text(splitting.text, splitting.max_len)]
    /\ MainUnchanged
    /\ UNCHANGED <<translation, recognition, correction, model_loading>>

SplitInit ==
    /\ MainInit
    /\ translation = NotTranslating
    /\ recognition = NotRecognizing
    /\ correction = NotCorrecting
    /\ model_loading = NotLoading
    /\ \E text \in SplitTexts, max_len \in MaxLens :
         \/ \E lang \in Langs, nlp \in BOOLEAN :
              splitting = [pc |-> "call", who |-> "utils", text |-> text,
                           max_len |-> max_len, lang |-> lang, nlp |-> nlp,
                           result |-> <<>>]
         \/ /\ Len(text) > max_len
            /\ splitting = [pc |-> "call", who |-> "server", text |-> text,
                            max_len |-> max_len, lang |-> "zh", nlp |-> FALSE,
                            result |-> <<>>]

SplitNext ==
    \/ call_split_text
    \/ call_server_split_text

SplitSpec == SplitInit /\ [][SplitNext]_vars

\* ------------------------------------------------- _correct_transcription
\* batch_size = 30, scaled so that a call of MaxLines lines runs two batches
CorrectionBatch == 2

\* A value of the answered JSON object: an object with 'corrected', a value
\* without it (an object, a string, a list), or one that `in` cannot search
\* (a number, null).
CorrectionValues ==
    {[kind |-> "corrected", text |-> "fixed"], [kind |-> "no_field", text |-> ""],
     [kind |-> "not_searchable", text |-> ""]}

CorrectionDicts ==
    UNION {[S -> CorrectionValues] : S \in SUBSET {str(j) : j \in 0..(CorrectionBatch - 1)}}

\* What the request of one batch gives: an exception (the post, response.json()
\* or the path into it), a status that is not 200, a content json.loads
\* rejects, a JSON value that is no object, or a JSON object.
CorrectionResponses ==
    {[kind |-> k, dict |-> <<>>] : k \in {"raised", "status", "unparseable", "value"}}
        \cup {[kind |-> "dict", dict |-> d] : d \in CorrectionDicts}

\* for j, sub in enumerate(batch): the texts set until a value raises
RECURSIVE set_corrected(_, _, _)
set_corrected(batch, json_result, j) ==
    IF j >= Len(batch) THEN batch
    ELSE LET key == str(j)
         IN  IF key \notin DOMAIN json_result THEN set_corrected(batch, json_result, j + 1)
             ELSE IF json_result[key].kind = "not_searchable" THEN batch
             ELSE IF json_result[key].kind = "corrected"
             THEN set_corrected([batch EXCEPT ![j + 1].text = json_result[key].text],
                                json_result, j + 1)
             ELSE set_corrected(batch, json_result, j + 1)

\* the batch as corrected_subtitles.extend(batch) takes it
corrected_or_dropped(batch, response) ==
    IF response.kind = "dict" THEN set_corrected(batch, response.dict, 0) ELSE <<>>

corrected(batch, response) ==
    IF response.kind = "dict" THEN set_corrected(batch, response.dict, 0) ELSE batch

CorrectionUnchanged ==
    /\ MainUnchanged
    /\ UNCHANGED <<translation, recognition, splitting, model_loading>>

\* if not api_url or not subtitles: return subtitles
correct_begin ==
    /\ correction.pc = "start"
    /\ correction' =
         IF ~correction.api_url \/ correction.subtitles = <<>>
         THEN [correction EXCEPT !.pc = "done", !.result = correction.subtitles]
         ELSE [correction EXCEPT !.pc = "loop"]
    /\ CorrectionUnchanged

\* one turn of `for i in range(0, len(subtitles), batch_size)`; the lines of
\* the batch are the lines of subtitles, changed in place
correct_batch ==
    /\ correction.pc = "loop"
    /\ \E response \in CorrectionResponses :
         LET c == correction
             n == Len(c.subtitles)
             last == IF c.i + CorrectionBatch < n THEN c.i + CorrectionBatch ELSE n
             batch == corrected(SubSeq(c.subtitles, c.i + 1, last), response)
         IN  correction' =
               [c EXCEPT !.subtitles = [k \in 1..n |->
                                          IF k > c.i /\ k <= c.i + Len(batch)
                                          THEN batch[k - c.i] ELSE c.subtitles[k]],
                         !.corrected_subtitles = @ \o batch,
                         !.answers = Append(@, response),
                         !.i = c.i + CorrectionBatch,
                         !.pc = IF c.i + CorrectionBatch < n THEN "loop" ELSE "return"]
    /\ CorrectionUnchanged

\* return corrected_subtitles
correct_return ==
    /\ correction.pc = "return"
    /\ correction' = [correction EXCEPT !.pc = "done",
                                        !.result = correction.corrected_subtitles]
    /\ CorrectionUnchanged

\* one call, with LM_STUDIO_API_URL set or not; given keeps the lines as passed
CorrInit ==
    /\ MainInit
    /\ translation = NotTranslating
    /\ recognition = NotRecognizing
    /\ splitting = NotSplitting
    /\ model_loading = NotLoading
    /\ \E subtitles \in LineSeqs, api_url \in BOOLEAN :
         correction = [pc |-> "start", api_url |-> api_url, given |-> subtitles,
                       subtitles |-> subtitles, i |-> 0, corrected_subtitles |-> <<>>,
                       answers |-> <<>>, result |-> <<>>]

CorrNext ==
    \/ correct_begin
    \/ correct_batch
    \/ correct_return

CorrSpec == CorrInit /\ [][CorrNext]_vars

\* ------------------------------------------------ WhisperEngine.get_model
\* The engine is built once, when the module is imported; model is None (0)
\* until a thread has loaded it. Threads that call get_model, and how often.
MaxThreads == 2
MaxCalls == 2

Threads == 1..MaxThreads

\* if self.model is None, under the lock
still_none_unchecked(model) == TRUE

still_none(model) == model = 0

LoadingUnchanged ==
    /\ MainUnchanged
    /\ UNCHANGED <<translation, recognition, splitting, correction>>

Thread(t) == model_loading.threads[t]

\* model = self.get_model()
get_model_call(t) ==
    /\ Thread(t).pc = "idle" /\ Thread(t).calls < MaxCalls
    /\ model_loading' = [model_loading EXCEPT !.threads[t].pc = "check",
                                              !.threads[t].calls = @ + 1]
    /\ LoadingUnchanged

\* if self.model is None
get_model_check(t) ==
    /\ Thread(t).pc = "check"
    /\ model_loading' = [model_loading EXCEPT
          !.threads[t].pc = IF model_loading.model = 0 THEN "acquire" ELSE "return"]
    /\ LoadingUnchanged

\* with self._lock
get_model_acquire(t) ==
    /\ Thread(t).pc = "acquire" /\ model_loading.lock = 0
    /\ model_loading' = [model_loading EXCEPT !.lock = t, !.threads[t].pc = "locked"]
    /\ LoadingUnchanged

\* if self.model is None, under the lock
get_model_check_locked(t) ==
    /\ Thread(t).pc = "locked"
    /\ model_loading' = [model_loading EXCEPT
          !.threads[t].pc = IF still_none(model_loading.model) THEN "load" ELSE "release"]
    /\ LoadingUnchanged

\* self.model = WhisperModel(...): a new handle, or the constructor raises and
\* the with block gives the lock back
get_model_load(t) ==
    /\ Thread(t).pc = "load"
    /\ \/ model_loading' = [model_loading EXCEPT !.made = @ + 1,
                                                 !.model = model_loading.made + 1,
                                                 !.loaded_by = t,
                                                 !.threads[t].pc = "release"]
       \/ model_loading' = [model_loading EXCEPT !.lock = 0, !.threads[t].pc = "idle"]
    /\ LoadingUnchanged

\* the end of the with block
get_model_release(t) ==
    /\ Thread(t).pc = "release"
    /\ model_loading' = [model_loading EXCEPT !.lock = 0, !.threads[t].pc = "return"]
    /\ LoadingUnchanged

\* return self.model
get_model_return(t) ==
    /\ Thread(t).pc = "return"
    /\ model_loading' = [model_loading EXCEPT
          !.returned = @ \cup {model_loading.model},
          !.threads[t].pc = "idle"]
    /\ LoadingUnchanged

LoadInit ==
    /\ MainInit
    /\ translation = NotTranslating
    /\ recognition = NotRecognizing
    /\ splitting = NotSplitting
    /\ correction = NotCorrecting
    /\ model_loading = [pc |-> "run", model |-> 0, made |-> 0, lock |-> 0, loaded_by |-> 0,
                        returned |-> {},
                        threads |-> [t \in Threads |-> [pc |-> "idle", calls |-> 0]]]

LoadNext ==
    \E t \in Threads :
        \/ get_model_call(t)
        \/ get_model_check(t)
        \/ get_model_acquire(t)
        \/ get_model_check_locked(t)
        \/ get_model_load(t)
        \/ get_model_release(t)
        \/ get_model_return(t)

LoadSpec == LoadInit /\ [][LoadNext]_vars

\* ------------------------------------------------- uploaded audio files
\* The uploads made in a run; every upload gets an id of its own (uuid4).
MaxUploads == 2

uuid4(n) ==
    CASE n = 1 -> "u1"
      [] n = 2 -> "u2"
      [] n = 3 -> "u3"
      [] OTHER -> "u4"

\* TEMP_DIR / f"upload_{task_id}.mp3"
temp_file(task_id) ==
    CASE task_id = "u1" -> "upload_u1.mp3"
      [] task_id = "u2" -> "upload_u2.mp3"
      [] task_id = "u3" -> "upload_u3.mp3"
      [] OTHER -> "upload_u4.mp3"

\* the task_data of add_upload_task: local_file and no video_url
UploadData(task_id, service, target_lang) ==
    [task_id |-> task_id, local_file |-> temp_file(task_id), video_url |-> ABSENT,
     service |-> service, target_lang |-> target_lang, domain |-> ABSENT,
     engine |-> ABSENT, llm_correction |-> ABSENT]

\* POST /upload: the route passes domain=domain to add_upload_task, which has
\* no such parameter; the call raises TypeError before its body runs
upload_file ==
    /\ handler.pc = "idle"
    /\ requests.submits < MaxUploads
    /\ requests' = [requests EXCEPT !.submits = @ + 1]
    /\ \E service \in Services, target_lang \in TargetLangs :
         handler' = [Respond(<<"500", "TypeError">>) EXCEPT
                        !.td = [NoTaskData EXCEPT !.task_id = uuid4(requests'.submits),
                                                  !.service = service,
                                                  !.target_lang = target_lang]]
    /\ UNCHANGED <<tasks, task_queue, cache_files, raw_files, pg_rows,
                   audio_files, worker, ranCfg>>
    /\ UNCHANGED <<translation, recognition, splitting, correction, model_loading>>

\* add_upload_task called with the parameters it declares: the temp file is
\* written and the job is put on the queue
add_upload_task ==
    /\ handler.pc = "idle"
    /\ requests.submits < MaxUploads
    /\ requests' = [requests EXCEPT !.submits = @ + 1]
    /\ \E service \in Services, target_lang \in TargetLangs :
         LET td == UploadData(uuid4(requests'.submits), service, target_lang) IN
         /\ audio_files' = audio_files \cup {td.local_file}
         /\ task_queue' = Append(task_queue, td)
         /\ handler' = [HandlerIdle EXCEPT !.pc = "up_write", !.td = td]
    /\ UNCHANGED <<tasks, cache_files, raw_files, pg_rows, worker, ranCfg>>
    /\ UNCHANGED <<translation, recognition, splitting, correction, model_loading>>

\* add_upload_task after its queue.put: the pending write
add_upload_task_write ==
    /\ handler.pc = "up_write"
    /\ tasks' = update_task(tasks, handler.td.task_id, "pending", 0,
                            <<"uploaded">>, "NONE", "NONE")
    /\ handler' = HandlerIdle
    /\ UNCHANGED <<task_queue, cache_files, raw_files, pg_rows,
                   audio_files, worker, ranCfg, requests>>
    /\ UNCHANGED <<translation, recognition, splitting, correction, model_loading>>

\* the temp directory loses the file of a job that waits in the queue
temp_file_removed ==
    /\ \E i \in 1..Len(task_queue) :
         /\ task_queue[i].local_file \in audio_files
         /\ audio_files' = audio_files \ {task_queue[i].local_file}
    /\ UNCHANGED <<tasks, task_queue, cache_files, raw_files, pg_rows,
                   worker, handler, ranCfg, requests>>
    /\ UNCHANGED <<translation, recognition, splitting, correction, model_loading>>

\* _worker: task = self.task_queue.get(); _process_task for a task without
\* video_url: the local file is looked up, video_id = task_id, and control
\* leaves the if; the download and the recognition are in the else branch
worker_get_upload ==
    /\ worker.pc = "idle"
    /\ task_queue # <<>>
    /\ task_queue' = Tail(task_queue)
    /\ LET td == Head(task_queue) IN
       IF td.local_file \notin audio_files
       THEN /\ tasks' = update_task(tasks, td.task_id, "error", 0,
                                    <<"no_local_file">>, "NONE", "NONE")
            /\ worker' = IdleWorker
       ELSE /\ tasks' = tasks
            /\ worker' = [IdleWorker EXCEPT !.pc = "post", !.task = td]
    /\ UNCHANGED <<cache_files, raw_files, pg_rows, audio_files,
                   handler, ranCfg, requests>>
    /\ UNCHANGED <<translation, recognition, splitting, correction, model_loading>>

\* _process_task after the if: no correction without llm_correction; with a
\* target language the test reads subtitles, a local that was never assigned
process_upload_post ==
    /\ worker.pc = "post"
    /\ worker' = IF Get(worker.task.llm_correction, "False") = "False"
                    /\ worker.task.target_lang = "NONE"
                 THEN [worker EXCEPT !.pc = "finish"]
                 ELSE [worker EXCEPT !.pc = "except",
                                     !.exc = <<"UnboundLocalError">>]
    /\ UNCHANGED <<tasks, task_queue, cache_files, raw_files, pg_rows,
                   audio_files, handler, ranCfg, requests>>
    /\ UNCHANGED <<translation, recognition, splitting, correction, model_loading>>

\* _process_task, the end: without video_url neither cache branch is taken, and
\* the completed write reads subtitles, which was never assigned
process_upload_finish ==
    /\ worker.pc = "finish"
    /\ worker' = IF worker.task.video_url # ABSENT
                 THEN [worker EXCEPT !.pc = "save"]
                 ELSE [worker EXCEPT !.pc = "except",
                                     !.exc = <<"UnboundLocalError">>]
    /\ UNCHANGED <<tasks, task_queue, cache_files, raw_files, pg_rows,
                   audio_files, handler, ranCfg, requests>>
    /\ UNCHANGED <<translation, recognition, splitting, correction, model_loading>>

\* no upload made yet, the worker blocked on the empty queue
UpInit ==
    /\ MainInit
    /\ translation = NotTranslating
    /\ recognition = NotRecognizing
    /\ splitting = NotSplitting
    /\ correction = NotCorrecting
    /\ model_loading = NotLoading

UpNext ==
    \/ upload_file
    \/ add_upload_task
    \/ add_upload_task_write
    \/ temp_file_removed
    \/ worker_get_upload
    \/ process_upload_post
    \/ process_upload_finish
    \/ worker_except
    \/ send_response

UpSpec == UpInit /\ [][UpNext]_vars

\* -------------------------------------------------------------- properties
Queued(v) == \E i \in 1..Len(task_queue) : task_queue[i].task_id = v
Held(v) == worker.pc # "idle" /\ worker.task.task_id = v
Status(T, v) == IF v \in DOMAIN T THEN T[v].status ELSE "none"
Finished(v) == Status(tasks, v) \in {"completed", "error"}
Running(v) == Status(tasks, v) \in {"downloading", "transcribing"}

Entries(v) ==
    Cardinality({i \in 1..Len(task_queue) : task_queue[i].task_id = v})
        + (IF Held(v) THEN 1 ELSE 0)

\* C1: nothing is put on the queue for a source id whose job is recorded as
\* pending, downloading or transcribing, and so the queue plus the worker never
\* hold two entries for one source id.
C1_NoSecondEntry ==
    /\ [](\A v \in Videos : Entries(v) <= 1)
    /\ [][\A v \in Videos :
            (Status(tasks, v) \in InFlight /\ Len(task_queue') > Len(task_queue))
                => task_queue'[Len(task_queue')].task_id # v]_vars

\* the final-tier record a cache check reads: the local file, else the row, with
\* the configuration it was saved under
StoredFinal(vid) ==
    IF vid \in DOMAIN cache_files
    THEN {<<cache_files[vid].service, cache_files[vid].domain,
            cache_files[vid].engine, cache_files[vid].target_lang>>}
    ELSE IF vid \in DOMAIN pg_rows
    THEN {<<pg_rows[vid].not_stored.service, pg_rows[vid].not_stored.domain,
            pg_rows[vid].not_stored.engine, pg_rows[vid].target_lang>>}
    ELSE {}

\* the worker takes the head of the queue and answers it from the final tier
ServedFromFinal ==
    /\ worker.pc = "idle" /\ task_queue # <<>>
    /\ task_queue' = Tail(task_queue)
    /\ worker'.pc = "idle"

\* C2: a job is served from the final tier only when the service, domain, engine
\* and target language the stored record was saved with all equal the job's,
\* whether the record is the local file or the PostgreSQL row.
C2_ServedOnlyOnExactMatch ==
    [][ServedFromFinal =>
          LET td == Head(task_queue) IN
          StoredFinal(td.task_id) =
              {<<Get(td.service, "local"), Get(td.domain, "general"),
                 Get(td.engine, "whisper"), td.target_lang>>}]_vars

Rank(status) ==
    CASE status = "pending" -> 0
      [] status = "downloading" -> 1
      [] status = "transcribing" -> 2
      [] status = "completed" -> 3
      [] OTHER -> 4

\* this step is a submission's write for v whose configuration differs from the
\* one v was last processed with
ResubmittedWithChange(v) ==
    \/ /\ handler.pc = "pl_write" /\ handler.td.task_id = v
       /\ Cfg(handler.td) # ranCfg[v]
    \/ /\ handler.pc = "idle" /\ handler'.pc = "respond" /\ handler'.td.task_id = v
       /\ Cfg(handler'.td) # ranCfg[v]

\* C3: a recorded status only moves forward along pending, downloading,
\* transcribing, completed, or to error; it moves back to pending only by a
\* resubmission whose configuration differs from the one the job was processed with.
C3_StatusMonotonic ==
    [][\A v \in Videos :
          LET s == Status(tasks, v)
              t == Status(tasks', v)
          IN  (s # "none" /\ t # "none" /\ s # t) =>
                 \/ t = "error"
                 \/ (s # "error" /\ t # "error" /\ Rank(t) > Rank(s))
                 \/ (t = "pending" /\ ResubmittedWithChange(v))]_vars

\* C4: at most one job is recorded as downloading or transcribing, and it is the
\* job the worker has dequeued and not yet finished.
C4_OneRunning ==
    /\ Cardinality({v \in Videos : Running(v)}) <= 1
    /\ \A v \in Videos : Running(v) => Held(v)

C4_Witness ==
    \E v, u \in Videos : v # u /\ Running(v) /\ Finished(u) /\ Held(v)

\* C5: under a fair worker every queued job leaves the queue, and a job that is
\* queued and not recorded as completed or error is eventually recorded as
\* completed or error, also when jobs before it have failed.
C5_EveryJobFinishes ==
    \A v \in Videos :
        /\ Queued(v) ~> ~Queued(v)
        /\ (Queued(v) /\ ~Finished(v)) ~> Finished(v)

C5_Witness ==
    \E v, u \in Videos :
        /\ v # u
        /\ Status(tasks, v) = "error"
        /\ Held(u) /\ Running(u)

\* C6: a step of a request handler (status query, submission, cache deletion) never
\* modifies or removes an existing record of the job the worker has dequeued and
\* is processing.
C6_OnlyWorkerWrites ==
    [][handler' # handler =>
          \A v \in Videos :
              (Held(v) /\ v \in DOMAIN tasks) =>
                  (v \in DOMAIN tasks' /\ tasks'[v] = tasks[v])]_vars

\* recognition has just returned no lines
RecognizedNothing ==
    /\ worker.pc \in {"whisper", "api_try"}
    /\ worker'.pc = "post" /\ worker'.subtitles = "EMPTY"

\* C7: when recognition returns no lines the job ends in error with a message and
\* neither the raw tier nor the final tier gains or changes a record for the source.
C7_NothingCachedOnEmpty ==
    [][LET vid == worker.task.task_id IN
       /\ RecognizedNothing =>
             /\ Lookup(raw_files', vid) = Lookup(raw_files, vid)
             /\ Lookup(cache_files', vid) = Lookup(cache_files, vid)
             /\ Lookup(pg_rows', vid) = Lookup(pg_rows, vid)
       /\ (worker.pc = "post" /\ worker.subtitles = "EMPTY" /\ worker' # worker) =>
             /\ worker'.pc = "except"
             /\ Lookup(cache_files', vid) = Lookup(cache_files, vid)
             /\ Lookup(pg_rows', vid) = Lookup(pg_rows, vid)]_vars

\* C8: when a job ends in error its record has status error and a non-empty
\* message, and the final-tier record of its source (local and remote) is what it
\* was when the job was dequeued.
C8_ErrorLeavesFinalTier ==
    [][(worker.pc = "except" /\ worker'.pc = "idle") =>
          LET vid == worker.task.task_id IN
          /\ Status(tasks', vid) = "error"
          /\ tasks'[vid].message # <<>>
          /\ Lookup(cache_files', vid) = worker.snapLocal
          /\ Lookup(pg_rows', vid) = worker.snapRemote]_vars

\* the retry loop has given up
Exhausted ==
    worker.pc = "except" /\ Head(worker.exc) \in {"download_failed", "api_failed"}

\* C9: a retried call is never made more than max_retries times; when every call
\* has failed transiently the loop ends after exactly max_retries calls with an
\* error that carries the detail of the last failure.
C9_ExactlyMaxAttempts ==
    /\ worker.calls <= max_retries
    /\ Exhausted => worker.calls = max_retries
    /\ (worker.pc = "except" /\ worker.calls > 0 /\ worker.nfail = worker.calls) =>
          /\ Exhausted
          /\ worker.calls = max_retries
          /\ worker.exc[2] = Detail(max_retries)

C9_Witness ==
    /\ worker.pc = "except" /\ Head(worker.exc) = "api_failed"
    /\ worker.calls = max_retries /\ worker.exc[2] = Detail(max_retries)

Min(a, b) == IF a < b THEN a ELSE b

\* C10: the k-th failed call is followed by a wait of BaseDelay * k when another
\* call follows it; there is no wait before the first call and none after the last.
C10_LinearBackoff ==
    /\ worker.waits = [k \in 1..Min(worker.nfail, max_retries - 1) |-> BaseDelay * k]
    /\ worker.nfail = 0 => worker.waits = <<>>
    /\ Exhausted => worker.waits = <<2, 4>>

C10_Witness ==
    /\ worker.pc = "except" /\ Head(worker.exc) = "download_failed"
    /\ worker.waits = <<2, 4>>

\* the download step starts with the audio file of the source present and non-empty
AudioPresent ==
    worker.pc = "download" /\ get_video_id(worker.task.video_url) \in audio_files

\* C11: when the audio file of the source exists and is non-empty the download step
\* makes no download call and no wait and goes on to recognition with that file.
C11_ExistingFileSkipsDownload ==
    [][(AudioPresent /\ worker' # worker) =>
          /\ worker'.pc = "recognize"
          /\ worker'.calls = 0 /\ worker'.nfail = 0 /\ worker'.waits = <<>>
          /\ audio_files' = audio_files]_vars

C11_Witness ==
    /\ worker.pc = "recognize"
    /\ worker.calls = 0 /\ worker.waits = <<>>
    /\ Status(tasks, worker.task.task_id) = "downloading"
    /\ tasks[worker.task.task_id].message = <<"audio_exists">>

\* C12: a job whose service lacks its credential ends in error without any
\* recognition call or wait, and a wait before another call is made only after a
\* transient failure.
C12_OnlyTransientRetried ==
    /\ [](worker.pc = "except" /\ Head(worker.exc) = "no_api_key" =>
             worker.calls = 0 /\ worker.waits = <<>>)
    /\ [][Len(worker'.waits) > Len(worker.waits) =>
             worker'.lastKind = "transient"]_vars

DeleteTargets == {"final_cache", "raw_cache", "memory_task", "postgres_record"}

\* the handler has just finished a delete_video_cache call
Deleted == handler.pc = "respond" /\ handler.video_id # ABSENT

\* which stores hold data for source id vid
Holding(vid) ==
    {t \in DeleteTargets :
        \/ t = "final_cache" /\ vid \in DOMAIN cache_files
        \/ t = "raw_cache" /\ vid \in DOMAIN raw_files
        \/ t = "memory_task" /\ vid \in DOMAIN tasks
        \/ t = "postgres_record" /\ vid \in DOMAIN pg_rows}

C14_ListsWhatWasRemoved ==
    /\ [][handler' # handler =>
            LET vid == handler.video_id
                Removed(store, after) == vid \in DOMAIN store /\ vid \notin DOMAIN after
            IN
            /\ handler.pc = "del_final" =>
                  ("final_cache" \in handler'.deleted <=> Removed(cache_files, cache_files'))
            /\ handler.pc = "del_raw" =>
                  ("raw_cache" \in handler'.deleted <=> Removed(raw_files, raw_files'))
            /\ handler.pc = "del_mem" =>
                  ("memory_task" \in handler'.deleted <=> Removed(tasks, tasks'))
            /\ handler.pc = "del_pg" =>
                  ("postgres_record" \in handler'.deleted <=> Removed(pg_rows, pg_rows'))]_vars
    /\ [](Deleted => (handler.resp = <<"404">> <=> handler.deleted = {}))

\* C15: a job served from the final tier is served from the local file when there
\* is one, and when it is served from the PostgreSQL row because the local file is
\* missing the record is written to the local store by that read.
C15_RemoteHitWrittenBack ==
    [][ServedFromFinal =>
          LET td == Head(task_queue)
              vid == get_video_id(td.video_url)
          IN  /\ vid \in DOMAIN cache_files =>
                    tasks'[td.task_id].subtitles = cache_files[vid].subtitles
              /\ vid \notin DOMAIN cache_files =>
                    /\ vid \in DOMAIN cache_files'
                    /\ cache_files'[vid].subtitles = pg_rows[vid].subtitles]_vars

\* the four fields a final-tier record is compared on
Config4(r) ==
    <<Get(r.service, "local"), Get(r.domain, "general"), Get(r.engine, "whisper"),
      r.target_lang>>

RawValid(td) ==
    LET vid == get_video_id(td.video_url) IN
    /\ vid \in DOMAIN raw_files
    /\ raw_files[vid].engine = Get(td.engine, "whisper")
    /\ raw_files[vid].domain = Get(td.domain, "general")
    /\ raw_files[vid].subtitles \notin {"NONE", "EMPTY"}

\* C17: a dequeued job that is not served from the final tier goes on with the lines
\* of the raw record, without download or recognition, exactly when that record has
\* the job's engine and domain and a non-empty line list; otherwise it goes to the
\* download step, and a recognition that returns overwrites the raw record.
C17_RawReuse ==
    [][LET vid == get_video_id(worker.task.video_url) IN
       /\ (worker.pc = "idle" /\ worker'.pc # "idle") =>
             LET td == Head(task_queue) IN
             IF RawValid(td)
             THEN /\ worker'.pc = "post"
                  /\ worker'.subtitles = raw_files[get_video_id(td.video_url)].subtitles
                  /\ worker'.calls = 0
                  /\ raw_files' = raw_files /\ audio_files' = audio_files
             ELSE worker'.pc = "download"
       /\ (worker.pc \in {"whisper", "api_try"} /\ worker'.pc = "post") =>
             /\ vid \in DOMAIN raw_files'
             /\ raw_files'[vid].subtitles = worker'.subtitles]_vars

C17_Witness ==
    /\ worker.pc = "post"
    /\ requests.deletes = 0
    /\ RawValid(worker.task)
    /\ worker.task.task_id \in DOMAIN cache_files
    /\ Config4(cache_files[worker.task.task_id]) # Config4(worker.task)

BatchDone ==
    /\ translation.pc \in {"faith", "express"}
    /\ Len(translation'.translated_subtitles) > Len(translation.translated_subtitles)

\* the batch the loop is at, and the lines the step appended for it
CurrentBatch == Batch(translation.subtitles, translation.i, batch_size(translation.llm))

Appended(j) == translation'.translated_subtitles[Len(translation.translated_subtitles) + j]

SameLine(a, b) == a.start = b.start /\ a.end = b.end /\ a.text = b.text

\* C19: whatever the lines and whatever the LLM answers, failures included, the
\* call returns the lines it was given, in their order, with start, end and
\* text as given; when batches were processed every line has one translation,
\* and that is the value the result used for the batch holds at the line's own
\* index within the batch.
C19_SameLinesOwnTranslation ==
    /\ [](translation.pc = "done" =>
            /\ translation.outcome = "returned"
            /\ Len(translation.result) = Len(translation.given)
            /\ \A k \in 1..Len(translation.given) :
                 /\ SameLine(translation.result[k], translation.given[k])
                 /\ (translation.asked.faith > 0 =>
                        translation.result[k].translation # ABSENT))
    /\ [][BatchDone =>
            /\ Len(translation'.translated_subtitles)
                 = Len(translation.translated_subtitles) + Len(CurrentBatch)
            /\ \A j \in 1..Len(CurrentBatch) :
                 LET d == translation'.use_result.dict
                     key == str(j - 1)
                 IN  /\ SameLine(Appended(j), CurrentBatch[j])
                     /\ IF key \in DOMAIN d
                        THEN Appended(j).translation
                               \in {d[key].free, d[key].direct, d[key].text}
                        ELSE Appended(j).translation = ""]_vars

\* the answer just received has fewer keys than the batch has lines, or is no
\* JSON object at all
TooFewKeys(res, batch) ==
    res.kind # "dict" \/ Cardinality(DOMAIN res.dict) < Len(batch)

\* C20: a pass asks at most twice; an answer is taken only if it has at least
\* as many keys as the batch has lines; when both answers of the faithful pass
\* fail the batch's lines get the empty translation, the expressive pass is not
\* run and the loop goes on to the next batch; when the faithful pass succeeded
\* and both answers of the expressive pass fail the lines get the faithful
\* result.
C20_PassFailures ==
    /\ [](/\ translation.asked.faith <= pass_attempts
          /\ translation.asked.express <= pass_attempts)
    /\ [][(translation.pc = "faith" /\ translation'.pc = "express") =>
            ~TooFewKeys(translation'.faith_result, CurrentBatch)]_vars
    /\ [][(translation.pc = "express" /\ BatchDone) =>
            /\ ~TooFewKeys(translation'.use_result, CurrentBatch)
            /\ (~TooFewKeys(translation'.res, CurrentBatch) =>
                    translation'.use_result = translation'.res)]_vars
    /\ [][(/\ translation.pc = "faith" /\ translation.attempt = pass_attempts - 1
           /\ translation' # translation
           /\ TooFewKeys(translation'.res, CurrentBatch)) =>
            /\ BatchDone
            /\ \A j \in 1..Len(CurrentBatch) : Appended(j).translation = ""
            /\ translation'.asked.express = 0
            /\ IF translation.i + Len(CurrentBatch) < Len(translation.subtitles)
               THEN /\ translation'.pc = "faith"
                    /\ translation'.i = translation.i + Len(CurrentBatch)
               ELSE translation'.outcome = "returned"]_vars
    /\ [][(/\ translation.pc = "express" /\ translation.attempt = pass_attempts - 1
           /\ translation' # translation
           /\ TooFewKeys(translation'.res, CurrentBatch)) =>
            /\ BatchDone
            /\ \A j \in 1..Len(CurrentBatch) :
                 Appended(j).translation = map_back(translation.faith_result.dict, j - 1)]_vars

\* both faithful answers of the first batch failed, its lines carry the empty
\* translation and the loop is at the second batch
C20_Witness ==
    /\ translation.pc = "faith" /\ translation.i > 0
    /\ translation.asked = [faith |-> pass_attempts, express |-> 0]
    /\ translation.translated_subtitles # <<>>
    /\ \A k \in 1..Len(translation.translated_subtitles) :
         translation.translated_subtitles[k].translation = ""

\* the segment the loop takes in this step
ThisSegment == recognition.segments[recognition.k + 1]

\* the judgment as the claim states it, on a cleaned text and a duration
Judged(t, d) ==
    \/ t \in {<<"dianzan">>, <<"mingjing">>} /\ d > 5 * Second
    \/ (\E k \in 1..Len(t) : t[k] = "mingjing") /\ d > 10 * Second /\ len(t) < 35

\* C21: a text is judged a hallucination exactly when it is a blacklisted
\* phrase lasting more than 5 s, or holds a distinctive fragment, lasts more
\* than 10 s and is shorter than 35 characters; both bounds are strict. The API
\* path judges the segment, the local path each word-aligned line.
C21_JudgmentThresholds ==
    [][(recognition.pc = "loop" /\ recognition' # recognition) =>
         /\ (recognition.path = "api" /\ strip(ThisSegment.text) # <<>>) =>
               (recognition'.made = <<>>
                  <=> Judged(text_clean(strip(ThisSegment.text)),
                             ThisSegment.end - ThisSegment.start))
         /\ recognition.path = "local" =>
               \A j \in 1..Len(recognition'.made) :
                  LET l == recognition'.made[j] IN
                  l.mode = "aligned" =>
                     (~l.kept <=> Judged(text_clean(l.text), l.end - l.start))]_vars

\* the API returned the blacklisted phrase over exactly five seconds, and the
\* line is in the result
C21_Witness ==
    /\ recognition.pc = "done" /\ recognition.path = "api"
    /\ Len(recognition.segments) = 1
    /\ recognition.segments[1].text = <<"dianzan", "!">>
    /\ recognition.segments[1].end - recognition.segments[1].start = 5 * Second
    /\ Len(recognition.subtitles) = 1

\* C22: on the local path (segment left whole, or word-aligned lines) and on
\* the API path, no line for which the judgment is true is in the subtitle
\* sequence.
C22_NoHallucinationInResult ==
    recognition.pc \in {"loop", "return", "done"} =>
        \A j \in 1..Len(recognition.subtitles) :
            LET l == recognition.subtitles[j] IN
            ~Judged(text_clean(l.text), l.end - l.start)

\* the lines made of the segment the last step took
Made == IF recognition.pc = "idle" THEN <<>> ELSE recognition.made

LastSegment == recognition.segments[recognition.k]

\* C23: every line has start <= end, and a word-aligned line whose end as
\* computed from the words is not after its start ends Epsilon after its
\* start, whatever the words' times (zero length, out of order).
C23_StartBeforeEnd ==
    /\ \A j \in 1..Len(Made) :
         /\ Made[j].start <= Made[j].end
         /\ (Made[j].mode = "aligned" /\ round2(Made[j].last_end) <= Made[j].start) =>
               Made[j].end = Made[j].start + Epsilon
    /\ recognition.pc # "idle" =>
         \A j \in 1..Len(recognition.subtitles) :
            recognition.subtitles[j].start <= recognition.subtitles[j].end

\* a line aligned to a word of zero length, or to one that ends before the
\* line starts, is in the result and lasts Epsilon
C23_Witness ==
    \E j \in 1..Len(Made) :
        /\ Made[j].mode = "aligned" /\ Made[j].first > 0 /\ Made[j].kept
        /\ round2(Made[j].last_end) <= Made[j].start
        /\ Made[j].end = Made[j].start + Epsilon

\* words that take time, none beginning before the one before it has ended
InOrder(words) ==
    /\ \A k \in 1..Len(words) : words[k].len > 0 /\ words[k].start < words[k].end
    /\ \A k \in 1..(Len(words) - 1) : words[k].end <= words[k + 1].start

\* segments one after the other, the words of each inside it and in time
\* order, and the words of the local pass in time order
WellTimed ==
    /\ \A k \in 1..Len(recognition.segments) :
         LET seg == recognition.segments[k] IN
         /\ seg.start <= seg.end
         /\ InOrder(seg.words)
         /\ \A i \in 1..Len(seg.words) :
              seg.start <= seg.words[i].start /\ seg.words[i].end <= seg.end
         /\ k < Len(recognition.segments) => seg.end <= recognition.segments[k + 1].start
    /\ InOrder(recognition.local_words.words)

\* C24: when the segments come in time order, the starts of the lines never
\* decrease along the subtitle sequence, within a segment, from one segment
\* to the next, and when the words come from the local pass.
C24_StartsNeverDecrease ==
    (recognition.pc # "idle" /\ WellTimed) =>
        \A j \in 1..(Len(recognition.subtitles) - 1) :
            recognition.subtitles[j].start <= recognition.subtitles[j + 1].start

\* C25: the lines made of one segment lie within the segment and none begins
\* before the one before it has ended, bumped lines and lines made after the
\* words ran out included.
C25_WithinSegmentNoOverlap ==
    (recognition.pc # "idle" /\ WellTimed /\ Made # <<>>) =>
        /\ \A j \in 1..Len(Made) :
             /\ round2(LastSegment.start) <= Made[j].start
             /\ Made[j].end <= round2(LastSegment.end)
        /\ \A j \in 1..(Len(Made) - 1) : Made[j].end <= Made[j + 1].start

\* the words the aligner ran over for the segment
words_of(path, seg, local_words) ==
    IF path = "local" THEN seg.words
    ELSE relevant_words(IF seg.words = <<>> /\ local_words.ok THEN local_words.words
                        ELSE seg.words, seg)

RECURSIVE Sum(_, _, _)
Sum(words, a, b) == IF a > b THEN 0 ELSE words[a].len + Sum(words, a + 1, b)

\* C26: a line takes words in order up to the first at which their length
\* reaches the line's; it starts at its first word's start or at the end of
\* the line before it, whichever is later, ends at its last word's end (or
\* Epsilon after its start, see C23), and shares no word with another line.
C26_WordsInOrder ==
    (recognition.pc # "idle" /\ Made # <<>>) =>
        LET words == words_of(recognition.path, LastSegment, recognition.local_words) IN
        \A j \in 1..Len(Made) :
            LET l == Made[j] IN
            (l.mode = "aligned" /\ l.first > 0) =>
                /\ l.first <= l.last
                /\ Sum(words, l.first, l.last - 1) < len(part_cleaned(l.text))
                /\ (Sum(words, l.first, l.last) >= len(part_cleaned(l.text))
                      \/ l.last = Len(words))
                /\ \A i \in 1..(j - 1) : Made[i].last < l.first
                /\ l.start = Max(round2(words[l.first].start),
                                 IF j = 1 THEN round2(LastSegment.start) ELSE Made[j - 1].end)
                /\ l.end \in {round2(words[l.last].end), l.start + Epsilon}

\* the aligner had no word left for some line of the segment
WordsRanOut == \E j \in 1..Len(Made) : Made[j].mode = "aligned" /\ Made[j].first = 0

\* C27: a segment cut in n > 1 parts that has no word timing, or whose words
\* run out before every part has one, gives n lines, the i-th from
\* start + (i - 1) * duration / n to start + i * duration / n.
C27_EqualShares ==
    (recognition.pc # "idle" /\ recognition.k > 0 /\ Len(LastSegment.parts) > 1
       /\ strip(LastSegment.text) # <<>>
       /\ (recognition.path = "api" =>
             ~filtered(text_clean(strip(LastSegment.text)),
                       LastSegment.end - LastSegment.start))
       /\ (words_of(recognition.path, LastSegment, recognition.local_words) = <<>>
             \/ WordsRanOut)) =>
        LET n == Len(LastSegment.parts) IN
        /\ Len(Made) = n
        /\ \A i \in 1..n :
             /\ Made[i].start = share(LastSegment, i - 1, n)
             /\ Made[i].end = share(LastSegment, i, n)

\* what a text says: its characters without the blanks
content(text) == remove(text, {" "})

Split == splitting.pc = "done"

\* C28: every line split returns is non-empty and at most max_len long, on
\* the spaCy path, on the path by length and in server.py
C28_LinesWithinMaxLen ==
    Split => \A k \in 1..Len(splitting.result) :
                /\ splitting.result[k] # <<>>
                /\ Len(splitting.result[k]) <= splitting.max_len

\* C29: split of a non-empty text returns at least one line, and the lines
\* together say what the text says, once and in order
C29_ContentOnceInOrder ==
    Split => /\ splitting.result # <<>>
             /\ content(Concat(splitting.result)) = content(splitting.text)

\* this step is transcribe answering a submission with the job that is in
\* flight for its source, no task added
AnsweredInFlight ==
    /\ handler.pc = "idle"
    /\ handler'.pc = "respond"
    /\ handler'.resp = <<"200", "in_progress", handler'.td.task_id>>

\* C30: a submission is answered with the job in flight for its source only
\* when its service, domain, engine, target language and correction flag are
\* those of that job
C30_InFlightOnlyWhenCompatible ==
    [][AnsweredInFlight =>
          \A e \in get_task(handler'.td.task_id) : Cfg(handler'.td) = Cfg(e)]_vars

\* this step is transcribe taking a submission for v, whose job is completed
SubmittedCompleted(v) ==
    /\ handler.pc = "idle"
    /\ handler'.td.task_id = v
    /\ Status(tasks, v) = "completed"

\* C31: a submission for a completed job is answered with the stored result,
\* nothing written and nothing enqueued, exactly when its configuration is the
\* one the completed pass ran with; otherwise the record becomes pending with
\* an empty result and the job goes to the queue
C31_CompletedServedOnMatch ==
    [][\A v \in Videos : SubmittedCompleted(v) =>
          IF Cfg(handler'.td) = ranCfg[v]
          THEN /\ handler'.pc = "respond" /\ handler'.resp[1] = "200"
               /\ tasks' = tasks /\ task_queue' = task_queue
          ELSE /\ Status(tasks', v) = "pending"
               /\ tasks'[v].subtitles = "EMPTY"
               /\ (Queued(v)' \/ handler'.pc # "respond")]_vars

\* the video the playlist loop is at, with the playlist's configuration
PlaylistVideo == TaskData(Head(handler.rest), handler.td.service, handler.td.target_lang)

\* the job of this video is in flight, or completed by a pass with this configuration
AlreadyThere(td) ==
    \/ Status(tasks, td.task_id) \in InFlight
    \/ Status(tasks, td.task_id) = "completed" /\ Cfg(td) = ranCfg[td.task_id]

\* C32: the playlist loop does not enqueue a video whose job is in flight or
\* completed with the same configuration, and enqueues every other video once
C32_PlaylistEnqueuesOnce ==
    [][(handler.pc = "pl_loop" /\ handler.rest # <<>> /\ handler' # handler) =>
          IF AlreadyThere(PlaylistVideo)
          THEN task_queue' = task_queue
          ELSE task_queue' = Append(task_queue, PlaylistVideo)]_vars

\* the lines of batch b of the call
BatchLines(b) ==
    {k \in 1..Len(correction.given) :
        k > (b - 1) * CorrectionBatch /\ k <= b * CorrectionBatch}

FailedAnswer(a) == a.kind \in {"raised", "status", "unparseable"}

\* an object whose values can all be read
ReadableAnswer(a) ==
    a.kind = "dict" /\ \A key \in DOMAIN a.dict : a.dict[key].kind # "not_searchable"

\* C33: the correction returns as many lines as it was given, in their order
\* and with their times; a batch whose request raised, was answered with
\* another status than 200 or with unparseable JSON keeps its texts, and the
\* batches after it are still asked for and corrected
C33_CorrectionKeepsLines ==
    correction.pc = "done" =>
        LET given == correction.given
            result == correction.result
            answers == correction.answers
        IN  /\ Len(result) = Len(given)
            /\ \A k \in 1..Len(given) :
                  result[k].start = given[k].start /\ result[k].end = given[k].end
            /\ (correction.api_url /\ given # <<>>) =>
                  Len(answers) * CorrectionBatch >= Len(given)
            /\ \A b \in 1..Len(answers) :
                  /\ FailedAnswer(answers[b]) =>
                        \A k \in BatchLines(b) : result[k].text = given[k].text
                  /\ ReadableAnswer(answers[b]) =>
                        \A k \in BatchLines(b) :
                           LET key == str(k - 1 - (b - 1) * CorrectionBatch)
                           IN  result[k].text =
                                 IF key \in DOMAIN answers[b].dict
                                    /\ answers[b].dict[key].kind = "corrected"
                                 THEN answers[b].dict[key].text
                                 ELSE given[k].text

\* a call of two batches, the first failed, the second corrected
C33_Witness ==
    /\ correction.pc = "done"
    /\ Len(correction.answers) = 2
    /\ FailedAnswer(correction.answers[1])
    /\ correction.result[1].text = correction.given[1].text
    /\ correction.result[3].text = "fixed"

\* C34: the model handle is made at most once, also when several threads are
\* in get_model before it is loaded, and every caller is given that handle
C34_ModelLoadedOnce ==
    model_loading.pc = "run" =>
        /\ model_loading.made <= 1
        /\ \A h \in model_loading.returned : h # 0 /\ h = model_loading.model

\* a thread that saw no model, waited for the lock and then found the model
\* another thread had loaded
C34_Witness ==
    /\ model_loading.pc = "run"
    /\ \E t \in Threads :
          /\ model_loading.threads[t].pc = "release"
          /\ model_loading.loaded_by \notin {0, t}
          /\ model_loading.model \in model_loading.returned

\* the job put on the queue for v has left it and the worker is past the
\* point where it has written nothing yet
WorkerRecorded(v) ==
    /\ ~Queued(v)
    /\ ~(Held(v) /\ worker.pc \in {"download", "post"})

\* C35: a job recorded as pending, downloading or transcribing is on the queue
\* or is the job the worker holds, and the pending write of add_task, which
\* follows its put, never replaces what the worker has recorded for the job
C35_InFlightQueuedOrHeld ==
    [][/\ \A v \in Videos :
             Status(tasks', v) \in InFlight => (Queued(v) \/ Held(v))'
       /\ (handler.pc = "pl_write" /\ handler' # handler) =>
             ~WorkerRecorded(handler.td.task_id)]_vars

\* C36: once delete_video_cache has returned for a source (its answer is still
\* on its way, so no submission has been made since), no step gives the source a
\* final-tier record, a raw-tier record or an in-memory job again, also when a
\* job for the source was queued or in processing during the delete.
C36_DeletedStaysDeleted ==
    [][\A v \in Videos :
         (Deleted /\ handler.video_id = v /\ handler.resp # <<"500">>
              /\ handler' = handler)
         => (Holding(v))' \subseteq Holding(v)]_vars

\* C37: in every reachable state the progress of every job is an integer from 0
\* to 100, and it is 100 exactly when the job's status is completed.
C37_ProgressFullIffCompleted ==
    \A v \in DOMAIN tasks :
        /\ tasks[v].progress \in 0..100
        /\ tasks[v].progress = 100 <=> tasks[v].status = "completed"

\* the configuration and identity a submission stores with a job
ConfigFields ==
    {"video_url", "video_id", "service", "domain", "engine", "target_lang",
     "llm_correction"}

\* C38: a step of the worker that updates the record of a job leaves the
\* configuration and identity stored at submission (video_url, video_id, service,
\* domain, engine, target_lang, llm_correction) as they were.
C38_UpdateKeepsConfig ==
    [][\A v \in DOMAIN tasks :
         (worker' # worker /\ handler' = handler /\ v \in DOMAIN tasks')
         => \A f \in ConfigFields : tasks'[v][f] = tasks[v][f]]_vars

\* the worker ends the job it holds
JobEnds == worker.pc # "idle" /\ worker'.pc = "idle"

\* C39: a job for an uploaded file that is on disk when the worker takes it
\* has gone through recognition when it ends, and ends completed with the
\* recognized lines when recognition gave some; a job whose file is missing ends
\* in error with no recognition call; no step of an upload job writes a cache tier.
C39_UploadRecognized ==
    [][/\ JobEnds =>
            /\ worker.calls > 0
            /\ worker.subtitles # "NONE" =>
                  /\ tasks'[worker.task.task_id].status = "completed"
                  /\ tasks'[worker.task.task_id].subtitles = worker.subtitles
       /\ (worker.pc = "idle" /\ task_queue # <<>> /\ task_queue' # task_queue
             /\ Head(task_queue).local_file \notin audio_files) =>
            /\ tasks'[Head(task_queue).task_id].status = "error"
            /\ worker'.calls = 0
       /\ UNCHANGED <<cache_files, raw_files, pg_rows>>]_vars

====
